---- MODULE Spec2Model ----
(***************************************************************************)
(* Model of the factor library: the Factor contract (compute_raw, compute),*)
(* the cross-sectional standardization engine and the factor registry with *)
(* compute_all.  Frames of the tabular engine are sequences of rows, a row *)
(* is a function from column names to values.  Floating point numbers are  *)
(* fixed-point integers (SCALE units per 1.0) together with the special    *)
(* values null (missing), NaN, +inf and -inf of the engine.                *)
(***************************************************************************)
EXTENDS Integers, Sequences, FiniteSets, TLC

(***************************************************************************)
(* Bounds of the model.                                                    *)
(***************************************************************************)
MaxRows == 3
MaxDate == 3
MaxFrameRows == 3
MaxHistory == 6

SCALE == 1000

Symbols == {"AAPL", "MSFT"}
Dates == 1..MaxDate

(***************************************************************************)
(* Values of a numeric column: f64 or null.                                *)
(***************************************************************************)
Num(n) == [t |-> "num", v |-> n]
Null == [t |-> "null", v |-> 0]
NaN == [t |-> "nan", v |-> 0]
PInf == [t |-> "inf", v |-> 1]
NInf == [t |-> "inf", v |-> -1]

IsNull(x) == x.t = "null"
IsNum(x) == x.t = "num"
IsNaN(x) == x.t = "nan"
IsInf(x) == x.t = "inf"

Abs(n) == IF n < 0 THEN -n ELSE n
Sgn(n) == IF n < 0 THEN -1 ELSE IF n > 0 THEN 1 ELSE 0

\* Division of integers rounded to the nearest, as f64 division rounds.
RDiv(a, b) == Sgn(a) * Sgn(b) * ((2 * Abs(a) + Abs(b)) \div (2 * Abs(b)))

RECURSIVE SqrtSearch(_, _, _)
SqrtSearch(n, lo, hi) ==
    IF lo >= hi THEN lo
    ELSE LET mid == (lo + hi + 1) \div 2
         IN IF mid * mid <= n THEN SqrtSearch(n, mid, hi)
            ELSE SqrtSearch(n, lo, mid - 1)

\* Square root of a non-negative integer, rounded down.
ISqrt(n) == SqrtSearch(n, 0, IF n < 46340 THEN n ELSE 46340)

\* sign of a value that is a number or an infinity
SignOf(x) == IF IsInf(x) THEN x.v ELSE Sgn(x.v)
InfOf(s) == IF s < 0 THEN NInf ELSE PInf

\* x - y on f64 with null propagation
FSub(x, y) ==
    IF IsNull(x) \/ IsNull(y) THEN Null
    ELSE IF IsNaN(x) \/ IsNaN(y) THEN NaN
    ELSE IF IsInf(x) /\ IsInf(y) THEN (IF x.v = y.v THEN NaN ELSE x)
    ELSE IF IsInf(x) THEN x
    ELSE IF IsInf(y) THEN InfOf(-y.v)
    ELSE Num(x.v - y.v)

\* x + y on f64 with null propagation
FAdd(x, y) ==
    IF IsNull(x) \/ IsNull(y) THEN Null
    ELSE IF IsNaN(x) \/ IsNaN(y) THEN NaN
    ELSE IF IsInf(x) /\ IsInf(y) THEN (IF x.v = y.v THEN x ELSE NaN)
    ELSE IF IsInf(x) THEN x
    ELSE IF IsInf(y) THEN y
    ELSE Num(x.v + y.v)

\* x / y on f64 with null propagation: 0/0 is NaN, x/0 is +-inf
FDiv(x, y) ==
    IF IsNull(x) \/ IsNull(y) THEN Null
    ELSE IF IsNaN(x) \/ IsNaN(y) THEN NaN
    ELSE IF IsInf(x) /\ IsInf(y) THEN NaN
    ELSE IF IsInf(x) THEN InfOf(x.v * (IF y.v < 0 THEN -1 ELSE 1))
    ELSE IF IsInf(y) THEN Num(0)
    ELSE IF y.v = 0 THEN (IF x.v = 0 THEN NaN ELSE InfOf(x.v))
    ELSE Num(RDiv(x.v * SCALE, y.v))

\* x * y on f64 with null propagation
FMul(x, y) ==
    IF IsNull(x) \/ IsNull(y) THEN Null
    ELSE IF IsNaN(x) \/ IsNaN(y) THEN NaN
    ELSE IF IsInf(x) \/ IsInf(y)
         THEN (IF SignOf(x) * SignOf(y) = 0 THEN NaN ELSE InfOf(SignOf(x) * SignOf(y)))
    ELSE Num(RDiv(x.v * y.v, SCALE))

\* abs() of a value
FAbs(x) == IF IsNum(x) THEN Num(Abs(x.v)) ELSE IF IsInf(x) THEN PInf ELSE x

\* x > y as the engine's comparison: null when an operand is null, NaN is
\* greater than every number (total float order of the engine)
FGt(x, y) ==
    IF IsNull(x) \/ IsNull(y) THEN FALSE
    ELSE IF IsNaN(x) THEN ~IsNaN(y)
    ELSE IF IsNaN(y) THEN FALSE
    ELSE IF IsInf(x) /\ IsInf(y) THEN x.v > y.v
    ELSE IF IsInf(x) THEN x.v > 0
    ELSE IF IsInf(y) THEN y.v < 0
    ELSE x.v > y.v

(***************************************************************************)
(* Sequences.                                                              *)
(***************************************************************************)
RECURSIVE SeqSum(_)
SeqSum(s) == IF s = <<>> THEN 0 ELSE Head(s) + SeqSum(Tail(s))

Range(s) == {s[i] : i \in DOMAIN s}

\* the values of column c of the rows of df
Column(df, c) == [i \in DOMAIN df |-> df[i][c]]

NonNull(vals) == SelectSeq(vals, LAMBDA x : ~IsNull(x))

(***************************************************************************)
(* Aggregations of the engine over the values of one group.                *)
(***************************************************************************)
\* mean(): nulls are skipped; null on no value
AggMean(vals) ==
    LET nn == NonNull(vals)
    IN IF nn = <<>> THEN Null
       ELSE IF \E i \in DOMAIN nn : IsNaN(nn[i]) THEN NaN
       ELSE IF \E i \in DOMAIN nn : IsInf(nn[i])
            THEN (IF \E i, j \in DOMAIN nn : IsInf(nn[i]) /\ IsInf(nn[j]) /\ nn[i].v # nn[j].v
                  THEN NaN
                  ELSE (CHOOSE x \in Range(nn) : IsInf(x)))
       ELSE Num(RDiv(SeqSum([i \in DOMAIN nn |-> nn[i].v]), Len(nn)))

\* std(ddof): nulls are skipped; null when no more than ddof values remain
AggStd(vals, ddof) ==
    LET nn == NonNull(vals)
    IN IF Len(nn) <= ddof THEN Null
       ELSE IF \E i \in DOMAIN nn : ~IsNum(nn[i]) THEN NaN
       ELSE LET m == RDiv(SeqSum([i \in DOMAIN nn |-> nn[i].v]), Len(nn))
                ss == SeqSum([i \in DOMAIN nn |-> (nn[i].v - m) * (nn[i].v - m)])
            IN Num(ISqrt(RDiv(ss, Len(nn) - ddof)))

(***************************************************************************)
(* Results: std::result::Result<DataFrame, FactorError>.                   *)
(***************************************************************************)
EmptyFrame == [cols |-> {}, rows |-> <<>>]
Ok(df) == [ok |-> TRUE, df |-> df, err |-> "none"]
Err(e) == [ok |-> FALSE, df |-> EmptyFrame, err |-> e]

(***************************************************************************)
(* Dates.  NaiveDate::to_string and format("%Y-%m-%d") give the ISO string *)
(* of the date; inside the bounded calendar (one month) the strings differ *)
(* in their two day digits only, which is what the model keeps of them.    *)
(* The engine compares the date column with the literal as strings.        *)
(***************************************************************************)
DateString(d) == IF d < 1 THEN <<0, 0>> ELSE <<d \div 10, d % 10>>

\* s <= t on strings (lexicographic)
StrLe(s, t) == s[1] < t[1] \/ (s[1] = t[1] /\ s[2] <= t[2])
StrLt(s, t) == s[1] < t[1] \/ (s[1] = t[1] /\ s[2] < t[2])

\* order of the symbol strings
SymRank(s) == IF s = "AAPL" THEN 1 ELSE 2

(***************************************************************************)
(* Tabular engine: filter, sort, group, shift, slice, rolling.             *)
(***************************************************************************)

\* row r sorts strictly before row q on (symbol, date)
KeyLt(r, q) ==
    \/ SymRank(r["symbol"]) < SymRank(q["symbol"])
    \/ r["symbol"] = q["symbol"] /\ StrLt(r["date"], q["date"])
KeyEq(r, q) == r["symbol"] = q["symbol"] /\ r["date"] = q["date"]

\* sort(["symbol", "date"]) ascending.  The sort is not order-maintaining:
\* rows of equal key come out in an order the engine chooses (tieOrder).
SortSymbolDate(rows, tieOrder) ==
    LET before(j, i) ==
            \/ KeyLt(rows[j], rows[i])
            \/ KeyEq(rows[j], rows[i]) /\ (IF tieOrder = "keep" THEN j < i ELSE j > i)
        pos(i) == Cardinality({j \in DOMAIN rows : before(j, i)}) + 1
    IN [k \in DOMAIN rows |-> rows[CHOOSE i \in DOMAIN rows : pos(i) = k]]

\* sort_by([col("date")]) inside one group
SortDate(rows, tieOrder) ==
    LET before(j, i) ==
            \/ StrLt(rows[j]["date"], rows[i]["date"])
            \/ rows[j]["date"] = rows[i]["date"] /\ (IF tieOrder = "keep" THEN j < i ELSE j > i)
        pos(i) == Cardinality({j \in DOMAIN rows : before(j, i)}) + 1
    IN [k \in DOMAIN rows |-> rows[CHOOSE i \in DOMAIN rows : pos(i) = k]]

\* the rows of the group of symbol s, in frame order
GroupOf(rows, s) == SelectSeq(rows, LAMBDA r : r["symbol"] = s)

\* index of row i of the frame inside its symbol's group
IndexInGroup(rows, i) == Cardinality({j \in 1..i : rows[j]["symbol"] = rows[i]["symbol"]})

\* col(c).shift(n) over the whole frame, the symbols not told apart
ShiftFrame(rows, c, n, i) == IF i - n >= 1 THEN rows[i - n][c] ELSE Null

\* col(c).shift(n).over([col("symbol")]) at row i of the frame
ShiftOver(rows, c, n, i) ==
    LET g == GroupOf(rows, rows[i]["symbol"])
        k == IndexInGroup(rows, i)
    IN IF k - n >= 1 THEN g[k - n][c] ELSE Null

\* a slice whose negative offset, when it reaches before the start, is moved
\* to the start with the length kept
SliceFromStart(s, offset, length) ==
    LET n == Len(s)
        start0 == IF offset < 0 THEN (IF offset + n < 0 THEN 0 ELSE offset + n) ELSE offset
        stop0 == start0 + length
        clamp(x) == IF x < 0 THEN 0 ELSE IF x > n THEN n ELSE x
    IN SubSeq(s, clamp(start0) + 1, clamp(stop0))

\* slice(offset, length) of a sequence, offset < 0 counting from the end;
\* the window is clamped to the sequence
Slice(s, offset, length) ==
    LET n == Len(s)
        start0 == IF offset < 0 THEN offset + n ELSE offset
        stop0 == start0 + length
        clamp(x) == IF x < 0 THEN 0 ELSE IF x > n THEN n ELSE x
    IN SubSeq(s, clamp(start0) + 1, clamp(stop0))

\* first() / last() of an aggregated list: null on an empty list
First(s) == IF s = <<>> THEN Null ELSE s[1]
Last(s) == IF s = <<>> THEN Null ELSE s[Len(s)]

\* greatest date string of the rows of a group: col("date").sort().last()
LastDate(rows) ==
    CHOOSE d \in {rows[i]["date"] : i \in DOMAIN rows} :
        \A i \in DOMAIN rows : StrLe(rows[i]["date"], d)

\* sum(): nulls are skipped
AggSum(vals) ==
    LET nn == NonNull(vals)
    IN IF \E i \in DOMAIN nn : ~IsNum(nn[i]) THEN NaN
       ELSE Num(SeqSum([i \in DOMAIN nn |-> nn[i].v]))

\* symbols of the rows, in the order the group_by returns its groups
GroupKeys(rows) ==
    LET present == {rows[i]["symbol"] : i \in DOMAIN rows}
    IN SelectSeq(<<"AAPL", "MSFT">>, LAMBDA s : s \in present)

\* one output row (symbol, date, <name>)
OutRow(s, d, name, v) == ("symbol" :> s) @@ ("date" :> d) @@ (name :> v)

(***************************************************************************)
(* Factors.  A factor instance is a record: its kind and its configuration.*)
(***************************************************************************)
AssetGrowth(growth_periods) == [kind |-> "AssetGrowth", growth_periods |-> growth_periods]
ShortTermMomentum(lookback, skip_days) ==
    [kind |-> "ShortTermMomentum", lookback |-> lookback, skip_days |-> skip_days]
InsiderTrading(lookback_days) == [kind |-> "InsiderTrading", lookback_days |-> lookback_days]
HistoricalVolatility(lookback, min_periods) ==
    [kind |-> "HistoricalVolatility", lookback |-> lookback, min_periods |-> min_periods]
EarningsSurprise == [kind |-> "EarningsSurprise"]
BookToPrice == [kind |-> "BookToPrice"]
Roe == [kind |-> "Roe"]
AnalystRevisions(lookback_days) == [kind |-> "AnalystRevisions", lookback_days |-> lookback_days]
ShortTermReversal == [kind |-> "ShortTermReversal"]
InstitutionalOwnership == [kind |-> "InstitutionalOwnership"]

Name(f) ==
    CASE f.kind = "AssetGrowth" -> "asset_growth"
      [] f.kind = "ShortTermMomentum" -> "short_term_momentum"
      [] f.kind = "InsiderTrading" -> "insider_net_buying"
      [] f.kind = "HistoricalVolatility" -> "historical_volatility"
      [] f.kind = "EarningsSurprise" -> "earnings_surprise"
      [] f.kind = "BookToPrice" -> "book_to_price"
      [] f.kind = "Roe" -> "roe"
      [] f.kind = "AnalystRevisions" -> "analyst_revisions"
      [] f.kind = "ShortTermReversal" -> "short_term_reversal"
      [] f.kind = "InstitutionalOwnership" -> "institutional_ownership_change"
      [] f.kind = "MediumTermMomentum" -> "medium_term_momentum"
      [] f.kind = "LongTermMomentum" -> "long_term_momentum"
      [] f.kind = "EarningsYield" -> "earnings_yield"
      [] f.kind = "FcfYield" -> "fcf_yield"
      [] f.kind = "Roa" -> "roa"
      [] f.kind = "ProfitMargin" -> "profit_margin"
      [] f.kind = "Leverage" -> "leverage"
      [] f.kind = "GrossProfitability" -> "gross_profitability"
      [] f.kind = "LogMarketCap" -> "log_market_cap"
      [] f.kind = "MarketBeta" -> "market_beta"
      [] f.kind = "EarningsGrowth" -> "earnings_growth"
      [] f.kind = "SalesGrowth" -> "sales_growth"
      [] f.kind = "TurnoverRatio" -> "turnover_ratio"
      [] f.kind = "AmihudIlliquidity" -> "amihud_illiquidity"
      [] f.kind = "DollarVolume" -> "dollar_volume"
      [] f.kind = "BidAskSpread" -> "bid_ask_spread"
      [] f.kind = "RollMeasure" -> "roll_spread"
      [] f.kind = "CorwinSchultz" -> "corwin_schultz_spread"
      [] f.kind = "ShortInterestRatio" -> "short_interest_ratio"
      [] f.kind = "DaysToCover" -> "days_to_cover"
      [] f.kind = "RelativeVolume" -> "relative_volume"
      [] f.kind = "KyleLambda" -> "kyle_lambda"

Category(f) ==
    CASE f.kind = "AssetGrowth" -> "Growth"
      [] f.kind = "ShortTermMomentum" -> "Momentum"
      [] f.kind = "InsiderTrading" -> "Sentiment"
      [] f.kind = "HistoricalVolatility" -> "Volatility"
      [] f.kind = "EarningsSurprise" -> "Sentiment"
      [] f.kind = "BookToPrice" -> "Value"
      [] f.kind = "Roe" -> "Quality"
      [] f.kind = "AnalystRevisions" -> "Sentiment"
      [] f.kind = "ShortTermReversal" -> "Sentiment"
      [] f.kind = "InstitutionalOwnership" -> "Sentiment"
      [] f.kind = "MediumTermMomentum" -> "Momentum"
      [] f.kind = "LongTermMomentum" -> "Momentum"
      [] f.kind = "EarningsYield" -> "Value"
      [] f.kind = "FcfYield" -> "Value"
      [] f.kind = "Roa" -> "Quality"
      [] f.kind = "ProfitMargin" -> "Quality"
      [] f.kind = "Leverage" -> "Quality"
      [] f.kind = "GrossProfitability" -> "Quality"
      [] f.kind = "LogMarketCap" -> "Size"
      [] f.kind = "MarketBeta" -> "Volatility"
      [] f.kind = "EarningsGrowth" -> "Growth"
      [] f.kind = "SalesGrowth" -> "Growth"
      [] f.kind = "TurnoverRatio" -> "Liquidity"
      [] f.kind = "AmihudIlliquidity" -> "Liquidity"
      [] f.kind = "DollarVolume" -> "Liquidity"
      [] f.kind = "BidAskSpread" -> "Liquidity"
      [] f.kind = "RollMeasure" -> "Liquidity"
      [] f.kind = "CorwinSchultz" -> "Liquidity"
      [] f.kind = "ShortInterestRatio" -> "Liquidity"
      [] f.kind = "DaysToCover" -> "Liquidity"
      [] f.kind = "RelativeVolume" -> "Liquidity"
      [] f.kind = "KyleLambda" -> "Liquidity"

RequiredColumns(f) ==
    CASE f.kind = "AssetGrowth" -> <<"symbol", "date", "total_assets">>
      [] f.kind = "ShortTermMomentum" -> <<"symbol", "date", "close">>
      [] f.kind = "InsiderTrading" -> <<"symbol", "date", "insider_buys", "insider_sells">>
      [] f.kind = "HistoricalVolatility" -> <<"symbol", "date", "close">>
      [] f.kind = "EarningsSurprise" ->
            <<"symbol", "date", "eps_actual", "eps_expected", "surprise_std">>
      [] f.kind = "BookToPrice" -> <<"symbol", "date", "book_equity", "market_cap">>
      [] f.kind = "Roe" -> <<"symbol", "date", "net_income", "shareholders_equity">>
      [] f.kind = "AnalystRevisions" -> <<"symbol", "date", "eps_estimate">>
      [] f.kind = "ShortTermReversal" -> <<"symbol", "date", "close">>
      [] f.kind = "InstitutionalOwnership" -> <<"symbol", "date", "institutional_ownership">>
      [] f.kind = "MediumTermMomentum" -> <<"symbol", "date", "close">>
      [] f.kind = "LongTermMomentum" -> <<"symbol", "date", "close">>
      [] f.kind = "EarningsYield" -> <<"symbol", "date", "net_income", "market_cap">>
      [] f.kind = "FcfYield" -> <<"symbol", "date", "free_cash_flow", "market_cap">>
      [] f.kind = "Roa" -> <<"symbol", "date", "net_income", "total_assets">>
      [] f.kind = "ProfitMargin" -> <<"symbol", "date", "net_income", "revenue">>
      [] f.kind = "Leverage" -> <<"symbol", "date", "total_debt", "shareholders_equity">>
      [] f.kind = "GrossProfitability" -> <<"symbol", "date", "revenue", "cogs", "total_assets">>
      [] f.kind = "LogMarketCap" -> <<"symbol", "date", "close", "shares_outstanding">>
      [] f.kind = "MarketBeta" -> <<"symbol", "date", "close", "market_return">>
      [] f.kind = "EarningsGrowth" -> <<"symbol", "date", "eps">>
      [] f.kind = "SalesGrowth" -> <<"symbol", "date", "revenue">>
      [] f.kind = "TurnoverRatio" -> <<"symbol", "date", "volume", "shares_outstanding">>
      [] f.kind = "AmihudIlliquidity" -> <<"symbol", "date", "close", "volume">>
      [] f.kind = "DollarVolume" -> <<"symbol", "date", "close", "volume">>
      [] f.kind = "BidAskSpread" -> <<"symbol", "date", "bid", "ask">>
      [] f.kind = "RollMeasure" -> <<"symbol", "date", "close">>
      [] f.kind = "CorwinSchultz" -> <<"symbol", "date", "high", "low">>
      [] f.kind = "ShortInterestRatio" -> <<"symbol", "date", "shares_short", "float_shares">>
      [] f.kind = "DaysToCover" -> <<"symbol", "date", "shares_short", "volume">>
      [] f.kind = "RelativeVolume" -> <<"symbol", "date", "volume">>
      [] f.kind = "KyleLambda" -> <<"symbol", "date", "close", "volume">>

Lookback(f) ==
    CASE f.kind = "AssetGrowth" -> f.growth_periods
      [] f.kind = "ShortTermMomentum" -> f.lookback
      [] f.kind = "InsiderTrading" -> f.lookback_days
      [] f.kind = "HistoricalVolatility" -> f.lookback
      [] f.kind = "EarningsSurprise" -> 1
      [] f.kind = "BookToPrice" -> 1
      [] f.kind = "Roe" -> 1
      [] f.kind = "AnalystRevisions" -> f.lookback_days
      [] f.kind = "ShortTermReversal" -> 5
      [] f.kind = "InstitutionalOwnership" -> 1
      [] f.kind = "MediumTermMomentum" -> f.lookback
      [] f.kind = "LongTermMomentum" -> f.lookback
      [] f.kind = "EarningsYield" -> 1
      [] f.kind = "FcfYield" -> 1
      [] f.kind = "Roa" -> 1
      [] f.kind = "ProfitMargin" -> 1
      [] f.kind = "Leverage" -> 1
      [] f.kind = "GrossProfitability" -> 1
      [] f.kind = "LogMarketCap" -> 1
      [] f.kind = "MarketBeta" -> f.lookback
      [] f.kind = "EarningsGrowth" -> f.growth_periods
      [] f.kind = "SalesGrowth" -> f.growth_periods
      [] f.kind = "TurnoverRatio" -> f.lookback
      [] f.kind = "AmihudIlliquidity" -> f.lookback
      [] f.kind = "DollarVolume" -> f.lookback
      [] f.kind = "BidAskSpread" -> f.lookback
      [] f.kind = "RollMeasure" -> f.lookback
      [] f.kind = "CorwinSchultz" -> f.lookback
      [] f.kind = "ShortInterestRatio" -> f.lookback
      [] f.kind = "DaysToCover" -> f.lookback
      [] f.kind = "RelativeVolume" -> f.lookback
      [] f.kind = "KyleLambda" -> f.lookback

\* Factor::description
Description(f) ==
    CASE f.kind = "AssetGrowth" -> "Year-over-year total assets growth rate: (Total Assets_t / Total Assets_{t-4}) - 1"
      [] f.kind = "ShortTermMomentum" -> "1-month (21-day) momentum - short-term trend persistence"
      [] f.kind = "InsiderTrading" -> "Net insider trading activity - (Buys - Sells) / (Buys + Sells) over 3 months"
      [] f.kind = "HistoricalVolatility" -> "Annualized standard deviation of daily returns - total risk measure"
      [] f.kind = "EarningsSurprise" -> "Standardized Unexpected Earnings (SUE) - Post-Earnings-Announcement Drift"
      [] f.kind = "BookToPrice" -> "Book equity divided by market capitalization - measures relative valuation"
      [] f.kind = "Roe" -> "Return on Equity - net income divided by shareholders' equity"
      [] f.kind = "AnalystRevisions" -> "Analyst revision momentum - net direction of EPS estimate changes"
      [] f.kind = "ShortTermReversal" -> "Short-term reversal signal based on 1-week returns (Jegadeesh 1990)"
      [] f.kind = "InstitutionalOwnership" -> "Quarterly change in institutional ownership percentage"
      [] f.kind = "MediumTermMomentum" -> "6-month (126-day) momentum - medium-term trend persistence"
      [] f.kind = "LongTermMomentum" -> "12-month (252-day) momentum with 1-month skip - long-term trend persistence"
      [] f.kind = "EarningsYield" -> "Net income divided by market capitalization - inverse of P/E ratio"
      [] f.kind = "FcfYield" -> "Free cash flow divided by market capitalization - cash generation relative to valuation"
      [] f.kind = "Roa" -> "Return on Assets - net income divided by total assets"
      [] f.kind = "ProfitMargin" -> "Profit Margin - net income divided by revenue"
      [] f.kind = "Leverage" -> "Leverage - total debt divided by shareholders' equity"
      [] f.kind = "GrossProfitability" -> "Gross profitability (Novy-Marx) - gross profit scaled by total assets"
      [] f.kind = "LogMarketCap" -> "Natural logarithm of market capitalization (price x shares outstanding)"
      [] f.kind = "MarketBeta" -> "Systematic risk exposure - covariance of returns with market divided by market variance"
      [] f.kind = "EarningsGrowth" -> "Year-over-year earnings per share growth rate: (EPS_t / EPS_{t-4}) - 1"
      [] f.kind = "SalesGrowth" -> "Year-over-year revenue growth rate: (Revenue_t / Revenue_{t-4}) - 1"
      [] f.kind = "TurnoverRatio" -> "Average trading volume as a fraction of shares outstanding over 21 days"
      [] f.kind = "AmihudIlliquidity" -> "Average ratio of absolute return to dollar volume over 21 days"
      [] f.kind = "DollarVolume" -> "Average dollar volume (price * volume) over 20 days"
      [] f.kind = "BidAskSpread" -> "Relative bid-ask spread as percentage of mid-price"
      [] f.kind = "RollMeasure" -> "Implied spread from serial covariance of price changes over 20 days"
      [] f.kind = "CorwinSchultz" -> "High-low spread estimator using 2-day high/low ranges over 20 days"
      [] f.kind = "ShortInterestRatio" -> "Ratio of shares sold short to float"
      [] f.kind = "DaysToCover" -> "Days of average volume needed to cover short positions"
      [] f.kind = "RelativeVolume" -> "Current volume relative to 20-day average volume"
      [] f.kind = "KyleLambda" -> "Price impact coefficient from regressing absolute return on signed volume over 20 days"

\* Factor::frequency
Frequency(f) ==
    CASE f.kind = "AssetGrowth" -> "Quarterly"
      [] f.kind = "ShortTermMomentum" -> "Daily"
      [] f.kind = "InsiderTrading" -> "Daily"
      [] f.kind = "HistoricalVolatility" -> "Daily"
      [] f.kind = "EarningsSurprise" -> "Quarterly"
      [] f.kind = "BookToPrice" -> "Quarterly"
      [] f.kind = "Roe" -> "Quarterly"
      [] f.kind = "AnalystRevisions" -> "Daily"
      [] f.kind = "ShortTermReversal" -> "Daily"
      [] f.kind = "InstitutionalOwnership" -> "Quarterly"
      [] f.kind = "MediumTermMomentum" -> "Daily"
      [] f.kind = "LongTermMomentum" -> "Daily"
      [] f.kind = "EarningsYield" -> "Quarterly"
      [] f.kind = "FcfYield" -> "Quarterly"
      [] f.kind = "Roa" -> "Quarterly"
      [] f.kind = "ProfitMargin" -> "Quarterly"
      [] f.kind = "Leverage" -> "Quarterly"
      [] f.kind = "GrossProfitability" -> "Quarterly"
      [] f.kind = "LogMarketCap" -> "Daily"
      [] f.kind = "MarketBeta" -> "Daily"
      [] f.kind = "EarningsGrowth" -> "Quarterly"
      [] f.kind = "SalesGrowth" -> "Quarterly"
      [] f.kind = "TurnoverRatio" -> "Daily"
      [] f.kind = "AmihudIlliquidity" -> "Daily"
      [] f.kind = "DollarVolume" -> "Daily"
      [] f.kind = "BidAskSpread" -> "Daily"
      [] f.kind = "RollMeasure" -> "Daily"
      [] f.kind = "CorwinSchultz" -> "Daily"
      [] f.kind = "ShortInterestRatio" -> "Daily"
      [] f.kind = "DaysToCover" -> "Daily"
      [] f.kind = "RelativeVolume" -> "Daily"
      [] f.kind = "KyleLambda" -> "Daily"

\* the engine rejects an expression over a column the frame does not have
HasColumns(data, cs) == cs \subseteq data.cols

\* filter(col("date").lt_eq(lit(date.to_string()))): the rows dated on or
\* before the as-of date, in frame order
UpToDateUnfiltered(rows, date) == rows

UpToDate(rows, date) == SelectSeq(rows, LAMBDA r : StrLe(r["date"], DateString(date)))

\* the growth taken against the row growth_periods places up in the frame as
\* it was passed, the sort on (symbol, date) left out
AssetGrowthComputeRawUnsorted(f, data, date, tieOrder) ==
    IF ~HasColumns(data, {"symbol", "date", "total_assets"}) THEN Err("Polars")
    ELSE
    LET filtered == UpToDate(data.rows, date)
        lagged == [i \in DOMAIN filtered |->
                     OutRow(filtered[i]["symbol"], filtered[i]["date"], "asset_growth",
                            FSub(FDiv(filtered[i]["total_assets"],
                                      ShiftOver(filtered, "total_assets", f.growth_periods, i)),
                                 Num(SCALE)))]
    IN Ok([cols |-> {"symbol", "date", "asset_growth"},
           rows |-> SelectSeq(lagged, LAMBDA r : r["date"] = DateString(date))])

\* AssetGrowth::compute_raw
AssetGrowthComputeRaw(f, data, date, tieOrder) ==
    IF ~HasColumns(data, {"symbol", "date", "total_assets"}) THEN Err("Polars")
    ELSE
    LET filtered == UpToDate(data.rows, date)
        sorted == SortSymbolDate(filtered, tieOrder)
        lagged == [i \in DOMAIN sorted |->
                     OutRow(sorted[i]["symbol"], sorted[i]["date"], "asset_growth",
                            FSub(FDiv(sorted[i]["total_assets"],
                                      ShiftOver(sorted, "total_assets", f.growth_periods, i)),
                                 Num(SCALE)))]
    IN Ok([cols |-> {"symbol", "date", "asset_growth"},
           rows |-> SelectSeq(lagged, LAMBDA r : r["date"] = DateString(date))])

\* the value of column c of the group rows g sorted by date, at slice(offset, 1).first()
SliceFirst(g, c, offset, tieOrder) ==
    First(Slice(Column(SortDate(g, tieOrder), c), offset, 1))

\* ShortTermMomentum::compute_raw
ShortTermMomentumComputeRaw(f, data, date, tieOrder) ==
    IF ~HasColumns(data, {"symbol", "date", "close"}) THEN Err("Polars")
    ELSE
    LET filtered == UpToDate(data.rows, date)
        keys == GroupKeys(filtered)
        agg == [k \in DOMAIN keys |->
                  LET g == GroupOf(filtered, keys[k])
                      current_price == SliceFirst(g, "close", 0 - (f.skip_days + 1), tieOrder)
                      lagged_price ==
                          SliceFirst(g, "close", 0 - (f.lookback + f.skip_days + 1), tieOrder)
                  IN OutRow(keys[k], LastDate(g), "short_term_momentum",
                            FSub(FDiv(current_price, lagged_price), Num(SCALE)))]
    IN Ok([cols |-> {"symbol", "date", "short_term_momentum"},
           rows |-> SelectSeq(agg, LAMBDA r : ~IsNull(r["short_term_momentum"]))])

\* InsiderTrading::compute_raw
InsiderTradingComputeRaw(f, data, date, tieOrder) ==
    IF ~HasColumns(data, {"symbol", "date", "insider_buys", "insider_sells"}) THEN Err("Polars")
    ELSE
    LET lookback_date == date - f.lookback_days
        filtered == SelectSeq(data.rows,
                           LAMBDA r : /\ StrLt(DateString(lookback_date), r["date"])
                                      /\ StrLe(r["date"], DateString(date)))
        keys == GroupKeys(filtered)
        agg == [k \in DOMAIN keys |->
                  LET g == GroupOf(filtered, keys[k])
                      total_buys == AggSum(Column(g, "insider_buys"))
                      total_sells == AggSum(Column(g, "insider_sells"))
                      total_activity == FAdd(total_buys, total_sells)
                  IN [row |-> OutRow(keys[k], LastDate(g), "insider_net_buying",
                                     FDiv(FSub(total_buys, total_sells), total_activity)),
                      total_activity |-> total_activity]]
        active == SelectSeq(agg, LAMBDA a : FGt(a.total_activity, Num(0)))
        selected == [i \in DOMAIN active |-> active[i].row]
    IN Ok([cols |-> {"symbol", "date", "insider_net_buying"},
           rows |-> SelectSeq(selected, LAMBDA r : ~IsNull(r["insider_net_buying"]))])

TRADING_DAYS_PER_YEAR == 252

\* rolling_std(window_size, min_periods).over(symbol) of the values vals of
\* one group, at position k of the group
RollingStd(vals, window_size, min_periods, k) ==
    LET lo == IF k - window_size + 1 < 1 THEN 1 ELSE k - window_size + 1
        window == SubSeq(vals, lo, k)
    IN IF Len(NonNull(window)) < min_periods THEN Null ELSE AggStd(window, 1)

\* HistoricalVolatility::compute_raw
HistoricalVolatilityComputeRaw(f, data, date, tieOrder) ==
    IF ~HasColumns(data, {"symbol", "date", "close"}) THEN Err("Polars")
    ELSE
    LET annualization_factor == Num(ISqrt(TRADING_DAYS_PER_YEAR * SCALE * SCALE))
        filtered == UpToDate(data.rows, date)
        sorted == SortSymbolDate(filtered, tieOrder)
        return(i) ==
            LET close_lag == ShiftOver(sorted, "close", 1, i)
            IN FDiv(FSub(sorted[i]["close"], close_lag), close_lag)
        with_returns == [i \in DOMAIN sorted |-> sorted[i] @@ ("return" :> return(i))]
        daily_vol(i) ==
            RollingStd(Column(GroupOf(with_returns, sorted[i]["symbol"]), "return"),
                       f.lookback, f.min_periods, IndexInGroup(sorted, i))
        vol == [i \in DOMAIN sorted |->
                  OutRow(sorted[i]["symbol"], sorted[i]["date"], "historical_volatility",
                         FMul(daily_vol(i), annualization_factor))]
    IN Ok([cols |-> {"symbol", "date", "historical_volatility"},
           rows |-> SelectSeq(vol, LAMBDA r : r["date"] = DateString(date))])

\* EarningsSurprise::compute_raw
EarningsSurpriseComputeRaw(f, data, date, tieOrder) ==
    IF ~HasColumns(data, {"symbol", "date", "eps_actual", "eps_expected", "surprise_std"})
    THEN Err("Polars")
    ELSE
    LET filtered == UpToDate(data.rows, date)
        keys == GroupKeys(filtered)
        agg == [k \in DOMAIN keys |->
                  LET g == SortDate(GroupOf(filtered, keys[k]), tieOrder)
                      eps_actual == Last(Column(g, "eps_actual"))
                      eps_expected == Last(Column(g, "eps_expected"))
                      surprise_std == Last(Column(g, "surprise_std"))
                  IN [row |-> OutRow(keys[k], LastDate(g), "earnings_surprise",
                                     FDiv(FSub(eps_actual, eps_expected), surprise_std)),
                      surprise_std |-> surprise_std]]
        positive == SelectSeq(agg, LAMBDA a : FGt(a.surprise_std, Num(0)))
        selected == [i \in DOMAIN positive |-> positive[i].row]
    IN Ok([cols |-> {"symbol", "date", "earnings_surprise"},
           rows |-> SelectSeq(selected, LAMBDA r : ~IsNull(r["earnings_surprise"]))])

\* the rows dated exactly the as-of date: filter(col("date").eq(lit(date.to_string())))
OnDate(rows, date) == SelectSeq(rows, LAMBDA r : r["date"] = DateString(date))

\* the value of column c of row r, null where the frame has no such column
ValueOrNull(r, c) == IF c \in DOMAIN r THEN r[c] ELSE Null

\* a book-to-price that fills a column the panel lacks with nulls
BookToPriceComputeRawDefaulted(f, data, date, tieOrder) ==
    IF ~HasColumns(data, {"symbol", "date"}) THEN Err("Polars")
    ELSE
    LET filtered == OnDate(data.rows, date)
    IN Ok([cols |-> {"symbol", "date", "book_to_price"},
           rows |-> [i \in DOMAIN filtered |->
                       OutRow(filtered[i]["symbol"], filtered[i]["date"], "book_to_price",
                              FDiv(ValueOrNull(filtered[i], "book_equity"),
                                   ValueOrNull(filtered[i], "market_cap")))]])

\* BookToPrice::compute_raw
BookToPriceComputeRaw(f, data, date, tieOrder) ==
    IF ~HasColumns(data, {"symbol", "date", "book_equity", "market_cap"}) THEN Err("Polars")
    ELSE
    LET filtered == OnDate(data.rows, date)
    IN Ok([cols |-> {"symbol", "date", "book_to_price"},
           rows |-> [i \in DOMAIN filtered |->
                       OutRow(filtered[i]["symbol"], filtered[i]["date"], "book_to_price",
                              FDiv(filtered[i]["book_equity"], filtered[i]["market_cap"]))]])

\* Roe::compute_raw
RoeComputeRaw(f, data, date, tieOrder) ==
    IF ~HasColumns(data, {"symbol", "date", "net_income", "shareholders_equity"})
    THEN Err("Polars")
    ELSE
    LET filtered == OnDate(data.rows, date)
    IN Ok([cols |-> {"symbol", "date", "roe"},
           rows |-> [i \in DOMAIN filtered |->
                       OutRow(filtered[i]["symbol"], filtered[i]["date"], "roe",
                              FDiv(filtered[i]["net_income"],
                                   filtered[i]["shareholders_equity"]))]])

\* AnalystRevisions::compute_raw
AnalystRevisionsComputeRaw(f, data, date, tieOrder) ==
    IF ~HasColumns(data, {"symbol", "date", "eps_estimate"}) THEN Err("Polars")
    ELSE
    LET filtered == UpToDate(data.rows, date)
        keys == GroupKeys(filtered)
        agg == [k \in DOMAIN keys |->
                  LET g == GroupOf(filtered, keys[k])
                      current_estimate == Last(Column(SortDate(g, tieOrder), "eps_estimate"))
                      prior_estimate ==
                          SliceFirst(g, "eps_estimate", 0 - (f.lookback_days + 1), tieOrder)
                  IN OutRow(keys[k], LastDate(g), "analyst_revisions",
                            FDiv(FSub(current_estimate, prior_estimate), FAbs(prior_estimate)))]
    IN Ok([cols |-> {"symbol", "date", "analyst_revisions"},
           rows |-> SelectSeq(agg, LAMBDA r : ~IsNull(r["analyst_revisions"]))])

\* ShortTermReversal::compute_raw
ShortTermReversalComputeRaw(f, data, date, tieOrder) ==
    IF ~HasColumns(data, {"symbol", "date", "close"}) THEN Err("Polars")
    ELSE
    LET filtered == UpToDate(data.rows, date)
        keys == GroupKeys(filtered)
        agg == [k \in DOMAIN keys |->
                  LET g == GroupOf(filtered, keys[k])
                      current_price == Last(Column(SortDate(g, tieOrder), "close"))
                      lagged_price == SliceFirst(g, "close", 0 - (Lookback(f) + 1), tieOrder)
                  IN [row |-> OutRow(keys[k], LastDate(g), "short_term_reversal",
                                     FMul(Num(0 - SCALE),
                                          FSub(FDiv(current_price, lagged_price), Num(SCALE)))),
                      lagged_price |-> lagged_price]]
        valid == SelectSeq(agg, LAMBDA a : FGt(a.lagged_price, Num(0)))
        present == SelectSeq(valid, LAMBDA a : ~IsNull(a.lagged_price))
        selected == [i \in DOMAIN present |-> present[i].row]
    IN Ok([cols |-> {"symbol", "date", "short_term_reversal"},
           rows |-> SelectSeq(selected, LAMBDA r : ~IsNull(r["short_term_reversal"]))])

\* InstitutionalOwnership::compute_raw
InstitutionalOwnershipComputeRaw(f, data, date, tieOrder) ==
    IF ~HasColumns(data, {"symbol", "date", "institutional_ownership"}) THEN Err("Polars")
    ELSE
    LET filtered == UpToDate(data.rows, date)
        keys == GroupKeys(filtered)
        agg == [k \in DOMAIN keys |->
                  LET g == GroupOf(filtered, keys[k])
                      current_ownership ==
                          Last(Column(SortDate(g, tieOrder), "institutional_ownership"))
                      prior_ownership ==
                          SliceFirst(g, "institutional_ownership", 0 - (Lookback(f) + 1), tieOrder)
                  IN [row |-> OutRow(keys[k], LastDate(g), "institutional_ownership_change",
                                     FSub(current_ownership, prior_ownership)),
                      prior_ownership |-> prior_ownership]]
        present == SelectSeq(agg, LAMBDA a : ~IsNull(a.prior_ownership))
        selected == [i \in DOMAIN present |-> present[i].row]
    IN Ok([cols |-> {"symbol", "date", "institutional_ownership_change"},
           rows |-> SelectSeq(selected,
                              LAMBDA r : ~IsNull(r["institutional_ownership_change"]))])

\* Factor::compute_raw through the trait object
ComputeRaw(f, data, date, tieOrder) ==
    CASE f.kind = "AssetGrowth" -> AssetGrowthComputeRaw(f, data, date, tieOrder)
      [] f.kind = "ShortTermMomentum" -> ShortTermMomentumComputeRaw(f, data, date, tieOrder)
      [] f.kind = "InsiderTrading" -> InsiderTradingComputeRaw(f, data, date, tieOrder)
      [] f.kind = "HistoricalVolatility" -> HistoricalVolatilityComputeRaw(f, data, date, tieOrder)
      [] f.kind = "EarningsSurprise" -> EarningsSurpriseComputeRaw(f, data, date, tieOrder)
      [] f.kind = "BookToPrice" -> BookToPriceComputeRaw(f, data, date, tieOrder)
      [] f.kind = "Roe" -> RoeComputeRaw(f, data, date, tieOrder)
      [] f.kind = "AnalystRevisions" -> AnalystRevisionsComputeRaw(f, data, date, tieOrder)
      [] f.kind = "ShortTermReversal" -> ShortTermReversalComputeRaw(f, data, date, tieOrder)
      [] f.kind = "InstitutionalOwnership" ->
            InstitutionalOwnershipComputeRaw(f, data, date, tieOrder)

(***************************************************************************)
(* Standardization engine.                                                 *)
(***************************************************************************)
\* a window over the whole frame, the dates not told apart
OverFrame(df, value_column, i) == Column(df.rows, value_column)

\* the values of value_column over the rows of the date of row i: over([col("date")])
OverDate(df, value_column, i) ==
    Column(SelectSeq(df.rows, LAMBDA r : r["date"] = df.rows[i]["date"]), value_column)

\* a standardization by the population standard deviation (N denominator)
CrossSectionalStandardizePopulation(df, value_column) ==
    IF ~HasColumns(df, {value_column, "date"}) THEN Err("Polars")
    ELSE
    LET centered(i) == FSub(df.rows[i][value_column], AggMean(OverDate(df, value_column, i)))
        std_dev(i) == AggStd(OverDate(df, value_column, i), 0)
        kept == df.cols \ {"centered", "std_dev"}
    IN Ok([cols |-> kept,
           rows |-> [i \in DOMAIN df.rows |->
                       [c \in kept |-> IF c = value_column
                                       THEN FDiv(centered(i), std_dev(i))
                                       ELSE df.rows[i][c]]]])

\* a standardization that leaves its helper columns in the frame
CrossSectionalStandardizeUndropped(df, value_column) ==
    IF ~HasColumns(df, {value_column, "date"}) THEN Err("Polars")
    ELSE
    LET centered(i) == FSub(df.rows[i][value_column], AggMean(OverDate(df, value_column, i)))
        std_dev(i) == AggStd(OverDate(df, value_column, i), 1)
        all == df.cols \cup {"centered", "std_dev"}
    IN Ok([cols |-> all,
           rows |-> [i \in DOMAIN df.rows |->
                       [c \in all |-> CASE c = value_column -> FDiv(centered(i), std_dev(i))
                                         [] c = "centered" -> centered(i)
                                         [] c = "std_dev" -> std_dev(i)
                                         [] OTHER -> df.rows[i][c]]]])

\* cross_sectional_standardize
CrossSectionalStandardize(df, value_column) ==
    IF ~HasColumns(df, {value_column, "date"}) THEN Err("Polars")
    ELSE
    LET centered(i) == FSub(df.rows[i][value_column], AggMean(OverDate(df, value_column, i)))
        std_dev(i) == AggStd(OverDate(df, value_column, i), 1)
        kept == df.cols \ {"centered", "std_dev"}
    IN Ok([cols |-> kept,
           rows |-> [i \in DOMAIN df.rows |->
                       [c \in kept |-> IF c = value_column
                                       THEN FDiv(centered(i), std_dev(i))
                                       ELSE df.rows[i][c]]]])

\* the values in ascending order of the engine (NaN last)
SortValues(vals) ==
    LET before(j, i) == FGt(vals[i], vals[j]) \/ (~FGt(vals[j], vals[i]) /\ j < i)
        pos(i) == Cardinality({j \in DOMAIN vals : before(j, i)}) + 1
    IN [k \in DOMAIN vals |-> vals[CHOOSE i \in DOMAIN vals : pos(i) = k]]

\* quantile(q, QuantileMethod::Linear) of the values of one group, q the
\* fraction q[1] / q[2]: nulls are skipped, the value at position
\* (n - 1) * q of the sorted values, interpolated between its neighbours
Quantile(vals, q) ==
    LET sorted == SortValues(NonNull(vals))
        n == Len(sorted)
    IN IF n = 0 THEN Null
       ELSE LET float_idx == (n - 1) * q[1]
                idx == float_idx \div q[2]
                proportion == float_idx % q[2]
                lower == sorted[idx + 1]
                upper == sorted[IF proportion = 0 THEN idx + 1 ELSE idx + 2]
            IN IF lower = upper THEN lower
               ELSE IF IsNum(lower) /\ IsNum(upper)
                    THEN Num(lower.v + RDiv((upper.v - lower.v) * proportion, q[2]))
               ELSE FAdd(lower, FMul(FSub(upper, lower), Num(RDiv(proportion * SCALE, q[2]))))

\* median(): the quantile 0.5
Median(vals) == Quantile(vals, <<1, 2>>)

\* a winsorization that forgets the upper bound
WinsorizeLowerOnly(df, value_column, lower_pct, upper_pct) ==
    IF ~HasColumns(df, {value_column, "date"}) THEN Err("Polars")
    ELSE
    LET lower_bound(i) == Quantile(OverDate(df, value_column, i), lower_pct)
        clipped(i) ==
            LET x == df.rows[i][value_column]
            IN IF FGt(lower_bound(i), x) THEN lower_bound(i) ELSE x
        kept == df.cols \ {"lower_bound", "upper_bound"}
    IN Ok([cols |-> kept,
           rows |-> [i \in DOMAIN df.rows |->
                       [c \in kept |-> IF c = value_column THEN clipped(i) ELSE df.rows[i][c]]]])

\* a winsorization that clips to the opposite bound
WinsorizeSwapped(df, value_column, lower_pct, upper_pct) ==
    IF ~HasColumns(df, {value_column, "date"}) THEN Err("Polars")
    ELSE
    LET lower_bound(i) == Quantile(OverDate(df, value_column, i), lower_pct)
        upper_bound(i) == Quantile(OverDate(df, value_column, i), upper_pct)
        clipped(i) ==
            LET x == df.rows[i][value_column]
            IN IF FGt(lower_bound(i), x) THEN upper_bound(i)
               ELSE IF FGt(x, upper_bound(i)) THEN lower_bound(i)
               ELSE x
        kept == df.cols \ {"lower_bound", "upper_bound"}
    IN Ok([cols |-> kept,
           rows |-> [i \in DOMAIN df.rows |->
                       [c \in kept |-> IF c = value_column THEN clipped(i) ELSE df.rows[i][c]]]])

\* a winsorization that removes the values outside the bounds
WinsorizeTrim(df, value_column, lower_pct, upper_pct) ==
    IF ~HasColumns(df, {value_column, "date"}) THEN Err("Polars")
    ELSE
    LET lower_bound(i) == Quantile(OverDate(df, value_column, i), lower_pct)
        upper_bound(i) == Quantile(OverDate(df, value_column, i), upper_pct)
        clipped(i) ==
            LET x == df.rows[i][value_column]
            IN IF FGt(lower_bound(i), x) \/ FGt(x, upper_bound(i)) THEN Null ELSE x
        kept == df.cols \ {"lower_bound", "upper_bound"}
    IN Ok([cols |-> kept,
           rows |-> [i \in DOMAIN df.rows |->
                       [c \in kept |-> IF c = value_column THEN clipped(i) ELSE df.rows[i][c]]]])

\* winsorize
Winsorize(df, value_column, lower_pct, upper_pct) ==
    IF ~HasColumns(df, {value_column, "date"}) THEN Err("Polars")
    ELSE
    LET lower_bound(i) == Quantile(OverDate(df, value_column, i), lower_pct)
        upper_bound(i) == Quantile(OverDate(df, value_column, i), upper_pct)
        clipped(i) ==
            LET x == df.rows[i][value_column]
            IN IF FGt(lower_bound(i), x) THEN lower_bound(i)
               ELSE IF FGt(x, upper_bound(i)) THEN upper_bound(i)
               ELSE x
        kept == df.cols \ {"lower_bound", "upper_bound"}
    IN Ok([cols |-> kept,
           rows |-> [i \in DOMAIN df.rows |->
                       [c \in kept |-> IF c = value_column THEN clipped(i) ELSE df.rows[i][c]]]])

\* the MAD scaling factor 1.4826, as the fraction 14826 / 10000
MAD_SCALE == <<14826, 10000>>

\* x * lit(r) for the positive literal r[1] / r[2]
FScale(x, r) == IF IsNum(x) THEN Num(RDiv(x.v * r[1], r[2])) ELSE x

\* a robust standardization that divides by the MAD itself
RobustStandardizeUnscaled(df, value_column) ==
    IF ~HasColumns(df, {value_column, "date"}) THEN Err("Polars")
    ELSE
    LET median_val(i) == Median(OverDate(df, value_column, i))
        abs_dev(i) == FAbs(FSub(df.rows[i][value_column], median_val(i)))
        with_dev == [cols |-> df.cols \cup {"abs_dev"},
                     rows |-> [i \in DOMAIN df.rows |-> df.rows[i] @@ ("abs_dev" :> abs_dev(i))]]
        mad_val(i) == Median(OverDate(with_dev, "abs_dev", i))
        kept == df.cols \ {"median_val", "abs_dev", "mad_val"}
    IN Ok([cols |-> kept,
           rows |-> [i \in DOMAIN df.rows |->
                       [c \in kept |->
                           IF c = value_column
                           THEN FDiv(FSub(df.rows[i][value_column], median_val(i)), mad_val(i))
                           ELSE df.rows[i][c]]]])

\* robust_standardize
RobustStandardize(df, value_column) ==
    IF ~HasColumns(df, {value_column, "date"}) THEN Err("Polars")
    ELSE
    LET median_val(i) == Median(OverDate(df, value_column, i))
        abs_dev(i) == FAbs(FSub(df.rows[i][value_column], median_val(i)))
        with_dev == [cols |-> df.cols \cup {"abs_dev"},
                     rows |-> [i \in DOMAIN df.rows |-> df.rows[i] @@ ("abs_dev" :> abs_dev(i))]]
        mad_val(i) == Median(OverDate(with_dev, "abs_dev", i))
        kept == df.cols \ {"median_val", "abs_dev", "mad_val"}
    IN Ok([cols |-> kept,
           rows |-> [i \in DOMAIN df.rows |->
                       [c \in kept |->
                           IF c = value_column
                           THEN FDiv(FSub(df.rows[i][value_column], median_val(i)),
                                     FScale(mad_val(i), MAD_SCALE))
                           ELSE df.rows[i][c]]]])

\* a compute that hands the raw values back
ComputeUnstandardized(f, data, date, tieOrder) == ComputeRaw(f, data, date, tieOrder)

\* Factor::compute (the default method of the trait)
Compute(f, data, date, tieOrder) ==
    LET raw == ComputeRaw(f, data, date, tieOrder)
    IN IF ~raw.ok THEN raw ELSE CrossSectionalStandardize(raw.df, Name(f))

(***************************************************************************)
(* Factor registry.  factors is the HashMap<String, Arc<dyn Factor>>: a    *)
(* function from the registered names to the factor instances.            *)
(***************************************************************************)
NoFactors == <<>>

\* an insert that keeps the entry a name already has
InsertIfAbsent(map, f) ==
    [n \in DOMAIN map \cup {Name(f)} |-> IF n \in DOMAIN map THEN map[n] ELSE f]

\* HashMap::insert(factor.name(), factor)
Insert(map, f) == [n \in DOMAIN map \cup {Name(f)} |-> IF n = Name(f) THEN f ELSE map[n]]

\* FactorRegistry::get: the entry of the name, NoFactor for None
NoFactor == [kind |-> "none"]
Get(map, name) == IF name \in DOMAIN map THEN map[name] ELSE NoFactor

\* FactorRegistry::len
RegistryLen(map) == Cardinality(DOMAIN map)

\* FactorRegistry::is_empty
IsEmpty(map) == DOMAIN map = {}

\* enum FactorCategory
Categories ==
    {"Momentum", "Value", "Quality", "Size", "Volatility", "Growth", "Liquidity", "Sentiment"}

\* the values of the map in the iteration order `order`
Values(map, order) == [i \in DOMAIN order |-> map[order[i]]]

\* a by_category that returns every registered factor
ByCategoryUnfiltered(map, order, category) == Values(map, order)

\* FactorRegistry::by_category, the map iterated in the order `order`
ByCategory(map, order, category) ==
    SelectSeq(Values(map, order), LAMBDA f : Category(f) = category)

\* the FactorInfo of a factor
FactorInfo(f) ==
    [name |-> Name(f), description |-> Description(f), category |-> Category(f),
     required_columns |-> RequiredColumns(f), lookback |-> Lookback(f),
     frequency |-> Frequency(f)]

\* an all_info with one entry per category met
AllInfoPerCategory(map, order) ==
    LET infos == [i \in DOMAIN order |-> FactorInfo(map[order[i]])]
    IN SelectSeq(infos, LAMBDA x :
           x = infos[CHOOSE i \in DOMAIN infos : /\ infos[i].category = x.category
                                                  /\ \A j \in 1..(i - 1) :
                                                        infos[j].category # x.category])

\* FactorRegistry::all_info, the map iterated in the order `order`
AllInfo(map, order) == [i \in DOMAIN order |-> FactorInfo(map[order[i]])]

\* FactorRegistry::names, the map iterated in the order `order`
Names(map, order) == order

\* Config::default() of the factor types, by the name of the type; a type
\* without configuration fields has the empty record
DefaultConfig(kind) ==
    CASE kind = "AssetGrowth" -> [growth_periods |-> 4]
      [] kind = "EarningsGrowth" -> [growth_periods |-> 4]
      [] kind = "SalesGrowth" -> [growth_periods |-> 4]
      [] kind = "ShortTermMomentum" -> [lookback |-> 21, skip_days |-> 5]
      [] kind = "MediumTermMomentum" -> [lookback |-> 126, skip_days |-> 21]
      [] kind = "LongTermMomentum" -> [lookback |-> 252, skip_days |-> 21]
      [] kind = "InsiderTrading" -> [lookback_days |-> 63]
      [] kind = "AnalystRevisions" -> [lookback_days |-> 63]
      [] kind = "HistoricalVolatility" -> [lookback |-> 63, min_periods |-> 63]
      [] kind = "MarketBeta" -> [lookback |-> 252, min_periods |-> 252]
      [] kind = "TurnoverRatio" -> [lookback |-> 21, min_periods |-> 21]
      [] kind = "AmihudIlliquidity" -> [lookback |-> 21, min_periods |-> 21]
      [] kind = "DollarVolume" -> [lookback |-> 20, min_periods |-> 20]
      [] kind = "CorwinSchultz" -> [lookback |-> 20, min_periods |-> 20]
      [] kind = "DaysToCover" -> [lookback |-> 20, min_periods |-> 20]
      [] kind = "RelativeVolume" -> [lookback |-> 20, min_periods |-> 20]
      [] kind = "BidAskSpread" -> [lookback |-> 1]
      [] kind = "ShortInterestRatio" -> [lookback |-> 1]
      [] kind = "RollMeasure" -> [lookback |-> 20]
      [] kind = "KyleLambda" -> [lookback |-> 20]
      [] OTHER -> <<>>

\* the types that implement ConfigurableFactor
ConfigurableKinds ==
    {"AssetGrowth", "EarningsGrowth", "SalesGrowth", "ShortTermMomentum",
     "MediumTermMomentum", "LongTermMomentum", "InsiderTrading", "AnalystRevisions",
     "HistoricalVolatility", "MarketBeta", "TurnoverRatio", "AmihudIlliquidity",
     "DollarVolume", "CorwinSchultz", "DaysToCover", "RelativeVolume", "BidAskSpread",
     "ShortInterestRatio", "Roa", "Leverage", "GrossProfitability", "EarningsYield",
     "FcfYield", "LogMarketCap"}

\* a with_config that builds the growth factors of all types as one type
WithConfigShared(kind, config) ==
    [kind |-> IF "growth_periods" \in DOMAIN config /\ config # DefaultConfig(kind)
              THEN "EarningsGrowth" ELSE kind] @@ config

\* ConfigurableFactor::with_config: Self { config }
WithConfig(kind, config) == [kind |-> kind] @@ config

\* Default::default() of a factor type
Default(kind) == WithConfig(kind, DefaultConfig(kind))

\* the types with_defaults registers, in its order
DefaultKinds ==
    <<"ShortTermMomentum", "MediumTermMomentum", "LongTermMomentum",
      "BookToPrice", "EarningsYield", "FcfYield",
      "Roe", "Roa", "ProfitMargin", "Leverage", "GrossProfitability",
      "LogMarketCap",
      "MarketBeta", "HistoricalVolatility",
      "EarningsGrowth", "SalesGrowth",
      "TurnoverRatio", "AmihudIlliquidity", "DollarVolume", "BidAskSpread", "RollMeasure",
      "CorwinSchultz", "ShortInterestRatio", "DaysToCover", "RelativeVolume", "KyleLambda",
      "AnalystRevisions">>

\* a with_defaults whose three momentum factors are one type under three
\* configurations
DefaultFactorsOneMomentum ==
    [i \in DOMAIN DefaultKinds |->
        IF DefaultKinds[i] \in {"MediumTermMomentum", "LongTermMomentum"}
        THEN WithConfig("ShortTermMomentum", DefaultConfig(DefaultKinds[i]))
        ELSE Default(DefaultKinds[i])]

\* the factors with_defaults registers, in its order
DefaultFactors == [i \in DOMAIN DefaultKinds |-> Default(DefaultKinds[i])]

\* the registry after the registrations fs[1], ..., fs[n] on the map
RECURSIVE RegisterAll(_, _)
RegisterAll(map, fs) ==
    IF fs = <<>> THEN map ELSE RegisterAll(Insert(map, Head(fs)), Tail(fs))

\* FactorRegistry::with_defaults
WithDefaults == RegisterAll(NoFactors, DefaultFactors)

\* a left join: the rows of l without a match are kept, r's columns null
LeftJoin(l, r) ==
    LET matches(i) == SelectSeq(r.rows, LAMBDA q : KeyEq(l.rows[i], q))
        unmatched(i) == [c \in l.cols \cup r.cols |-> IF c \in l.cols THEN l.rows[i][c] ELSE Null]
        RECURSIVE joined(_)
        joined(i) ==
            IF i > Len(l.rows) THEN <<>>
            ELSE (IF matches(i) = <<>> THEN <<unmatched(i)>>
                  ELSE [k \in DOMAIN matches(i) |-> l.rows[i] @@ matches(i)[k]])
                 \o joined(i + 1)
    IN [cols |-> l.cols \cup r.cols, rows |-> joined(1)]

\* inner join of the frames l and r on (symbol, date)
InnerJoin(l, r) ==
    LET matches(i) == SelectSeq(r.rows, LAMBDA q : KeyEq(l.rows[i], q))
        RECURSIVE joined(_)
        joined(i) ==
            IF i > Len(l.rows) THEN <<>>
            ELSE [k \in DOMAIN matches(i) |-> l.rows[i] @@ matches(i)[k]] \o joined(i + 1)
    IN [cols |-> l.cols \cup r.cols, rows |-> joined(1)]

\* the loop of compute_all over self.factors.values() taken in the order
\* `order` (a sequence of the registered names), from position i with the
\* accumulated result acc (NoResult for None)
NoResult == [none |-> TRUE]

RECURSIVE ComputeAllFrom(_, _, _, _, _, _, _)
ComputeAllFrom(map, order, i, acc, data, date, tieOrder) ==
    IF i > Len(order)
    THEN (IF acc = NoResult THEN Err("Computation: No factors registered") ELSE Ok(acc))
    ELSE LET factor_df == Compute(map[order[i]], data, date, tieOrder)
         IN IF ~factor_df.ok THEN factor_df
            ELSE ComputeAllFrom(map, order, i + 1,
                                IF acc = NoResult THEN factor_df.df
                                ELSE InnerJoin(acc, factor_df.df),
                                data, date, tieOrder)

\* a compute_all that answers an empty frame on an empty registry
ComputeAllEmptyOk(map, order, data, date, tieOrder) ==
    IF order = <<>> THEN Ok([cols |-> {"symbol", "date"}, rows |-> <<>>])
    ELSE ComputeAllFrom(map, order, 1, NoResult, data, date, tieOrder)

\* a compute_all that leaves out the factors whose compute fails
RECURSIVE ComputeAllSkipFrom(_, _, _, _, _, _, _)
ComputeAllSkipFrom(map, order, i, acc, data, date, tieOrder) ==
    IF i > Len(order)
    THEN (IF acc = NoResult THEN Err("Computation: No factors registered") ELSE Ok(acc))
    ELSE LET factor_df == Compute(map[order[i]], data, date, tieOrder)
         IN IF ~factor_df.ok
            THEN ComputeAllSkipFrom(map, order, i + 1, acc, data, date, tieOrder)
            ELSE ComputeAllSkipFrom(map, order, i + 1,
                                    IF acc = NoResult THEN factor_df.df
                                    ELSE InnerJoin(acc, factor_df.df),
                                    data, date, tieOrder)

ComputeAllSkipFailed(map, order, data, date, tieOrder) ==
    ComputeAllSkipFrom(map, order, 1, NoResult, data, date, tieOrder)

\* a compute_all that standardizes each factor column again over the rows
\* the joins have left
ComputeAllRestandardized(map, order, data, date, tieOrder) ==
    LET joined == ComputeAllFrom(map, order, 1, NoResult, data, date, tieOrder)
        RECURSIVE again(_, _)
        again(df, i) ==
            IF i > Len(order) THEN df
            ELSE again(CrossSectionalStandardize(df, order[i]).df, i + 1)
    IN IF joined.ok THEN Ok(again(joined.df, 1)) ELSE joined

\* FactorRegistry::compute_all, the map iterated in the order `order`
ComputeAll(map, order, data, date, tieOrder) ==
    ComputeAllFrom(map, order, 1, NoResult, data, date, tieOrder)

\* the orders in which a map of the names ns can be iterated
Orders(ns) ==
    {o \in [1..Cardinality(ns) -> ns] : \A i, j \in DOMAIN o : i # j => o[i] # o[j]}

(***************************************************************************)
(* Inputs of the model.                                                    *)
(***************************************************************************)
NumericColumns ==
    {"total_assets", "close", "insider_buys", "insider_sells",
     "eps_actual", "eps_expected", "surprise_std"}
AllColumns == {"symbol", "date"} \cup NumericColumns

\* one observation of a security: the measurements of a row
Observation(a, b) ==
    [c \in NumericColumns |->
        CASE c \in {"total_assets", "close", "eps_actual"} -> Num(a * SCALE)
          [] c \in {"insider_buys", "surprise_std"} -> Num(b * SCALE)
          [] c = "insider_sells" -> Num((a - 1) * SCALE)
          [] c = "eps_expected" -> Num(SCALE)]

Observations == {Observation(1, 0), Observation(2, 1)}

PanelRow(s, d, obs) == ("symbol" :> s) @@ ("date" :> DateString(d)) @@ obs

\* the schemas of the panels a caller passes: complete, or lacking a column
Schemas == {AllColumns, AllColumns \ {"close"}}

\* the factor instances of the model, with small configurations
FactorInstances ==
    {AssetGrowth(1), AssetGrowth(2), ShortTermMomentum(1, 0), ShortTermMomentum(1, 1),
     InsiderTrading(2), HistoricalVolatility(2, 2), EarningsSurprise}

TieOrders == {"keep", "reverse"}

VARIABLES
    panel,    \* the input panel of the caller: [cols, rows]
    tie,      \* the order the engine's sorts leave rows of equal key in
    factors,  \* FactorRegistry.factors
    call,     \* the last call: the operation and its arguments
    result,   \* what the last call returned
    frame     \* the frame handed to the standardization engine

vars == <<panel, tie, factors, call, result, frame>>

NoCall == [op |-> "none"]

\* restriction of a row to the columns of the schema
Project(row, cols) == [c \in cols |-> row[c]]

(***************************************************************************)
(* Evaluation of single factors on a panel the caller assembles.           *)
(***************************************************************************)
InitFactor ==
    /\ panel \in {[cols |-> cs, rows |-> <<>>] : cs \in Schemas}
    /\ tie \in TieOrders
    /\ panel.cols # AllColumns => tie = "keep"
    /\ factors = NoFactors
    /\ call = NoCall
    /\ result = NoResult
    /\ frame = EmptyFrame

\* r does not sort after q on (date, symbol)
FeedLe(r, q) ==
    \/ StrLt(r["date"], q["date"])
    \/ r["date"] = q["date"] /\ SymRank(r["symbol"]) <= SymRank(q["symbol"])

\* the caller appends an observation to the panel it assembles; observations
\* arrive by date and symbol, repeated (symbol, date) pairs included
AddRow(s, d, obs) ==
    /\ call = NoCall
    /\ Len(panel.rows) < MaxRows
    /\ IF panel.rows = <<>> THEN TRUE
       ELSE FeedLe(panel.rows[Len(panel.rows)], PanelRow(s, d, obs))
    /\ panel' = [panel EXCEPT !.rows = Append(@, Project(PanelRow(s, d, obs), panel.cols))]
    /\ call' = NoCall
    /\ result' = NoResult
    /\ UNCHANGED <<tie, factors, frame>>

CallComputeRaw(f, d) ==
    /\ call = NoCall
    /\ call' = [op |-> "compute_raw", factor |-> f, date |-> d]
    /\ result' = ComputeRaw(f, panel, d, tie)
    /\ UNCHANGED <<panel, tie, factors, frame>>

CallCompute(f, d) ==
    /\ call = NoCall
    /\ call' = [op |-> "compute", factor |-> f, date |-> d]
    /\ result' = Compute(f, panel, d, tie)
    /\ UNCHANGED <<panel, tie, factors, frame>>

\* the call has returned and the caller lets go of its result
Return ==
    /\ call # NoCall
    /\ call' = NoCall
    /\ result' = NoResult
    /\ UNCHANGED <<panel, tie, factors, frame>>

NextFactor ==
    \/ \E s \in Symbols, d \in Dates, obs \in Observations : AddRow(s, d, obs)
    \/ \E f \in FactorInstances, d \in Dates : CallComputeRaw(f, d)
    \/ \E f \in FactorInstances, d \in Dates : CallCompute(f, d)
    \/ Return

SpecFactor == InitFactor /\ [][NextFactor]_vars

(***************************************************************************)
(* The registry: factors are registered and the registry is read, on a     *)
(* panel the caller holds.                                                 *)
(***************************************************************************)
\* the observation of symbol s on day d in the caller's panels
ObservationAt(s, d) ==
    IF (d + SymRank(s)) % 2 = 0 THEN Observation(1, 0) ELSE Observation(2, 1)

\* the panel whose symbols are observed on the days cover[s], in date order
CoveragePanel(cols, cover) ==
    LET cells == [k \in 1..(2 * MaxDate) |->
                    [s |-> IF k % 2 = 1 THEN "AAPL" ELSE "MSFT", d |-> (k + 1) \div 2]]
        present == SelectSeq(cells, LAMBDA c : c.d \in cover[c.s])
    IN [cols |-> cols,
        rows |-> [i \in DOMAIN present |->
                    Project(PanelRow(present[i].s, present[i].d,
                                     ObservationAt(present[i].s, present[i].d)), cols)]]

\* the factor instances a caller registers
RegistryInstances ==
    {AssetGrowth(1), AssetGrowth(2), ShortTermMomentum(1, 0), EarningsSurprise}

\* the panels of the caller: every coverage of the two symbols under the
\* complete schema, and the equal coverages under the schema lacking a column
CallerPanels ==
    {CoveragePanel(AllColumns, cover) : cover \in [Symbols -> SUBSET Dates]}
    \cup {CoveragePanel(cs, [s \in Symbols |-> days]) : cs \in Schemas, days \in SUBSET Dates}

\* FactorRegistry::new() and a panel
Init ==
    /\ panel \in CallerPanels
    /\ tie = "keep"
    /\ factors = NoFactors
    /\ call = NoCall
    /\ result = NoResult
    /\ frame = EmptyFrame

\* FactorRegistry::register; displaced is the entry the insert put out of
\* the map, which register drops
Register(f) ==
    /\ call = NoCall
    /\ factors' = Insert(factors, f)
    /\ call' = [op |-> "register", factor |-> f, displaced |-> Get(factors, Name(f))]
    /\ result' = NoResult
    /\ UNCHANGED <<panel, tie, frame>>

\* FactorRegistry::compute_all, the map iterated in the order `order`
CallComputeAll(d, order) ==
    /\ call = NoCall
    /\ call' = [op |-> "compute_all", date |-> d, order |-> order]
    /\ result' = ComputeAll(factors, order, panel, d, tie)
    /\ UNCHANGED <<panel, tie, factors, frame>>

Next ==
    \/ \E f \in RegistryInstances : Register(f)
    \/ \E d \in Dates, order \in Orders(DOMAIN factors) : CallComputeAll(d, order)
    \/ Return

Spec == Init /\ [][Next]_vars

(***************************************************************************)
(* Introspection: a registry is made empty or with the defaults, factors   *)
(* built with a configuration are registered, and the registry is read.    *)
(***************************************************************************)
\* an iteration order of the names ns, fixed by the set alone
RECURSIVE SomeOrder(_)
SomeOrder(ns) ==
    IF ns = {} THEN <<>>
    ELSE LET n == CHOOSE n \in ns : TRUE IN <<n>> \o SomeOrder(ns \ {n})

\* the orders in which the map of the names ns is iterated: every order of
\* a small map, an order and its reverse of a larger one
IterationOrders(ns) ==
    IF Cardinality(ns) <= 3 THEN Orders(ns)
    ELSE LET o == SomeOrder(ns) IN {o, [i \in DOMAIN o |-> o[Len(o) + 1 - i]]}

\* the factor types a caller builds and registers
IntrospectKinds == {"AssetGrowth", "ShortTermMomentum", "Roa", "Roe"}

\* the configurations a caller passes to with_config of a type
ConfigValues(kind) ==
    {DefaultConfig(kind)} \cup [DOMAIN DefaultConfig(kind) -> {1, 5}]

\* the names a caller asks get for
GetNames ==
    {Name(Default(k)) : k \in Range(DefaultKinds) \cup IntrospectKinds} \cup {"unknown"}

\* FactorRegistry::new()
InitIntrospect ==
    /\ panel = [cols |-> AllColumns, rows |-> <<>>]
    /\ tie = "keep"
    /\ factors = NoFactors
    /\ call = NoCall
    /\ result = NoResult
    /\ frame = EmptyFrame

\* the caller makes a registry with FactorRegistry::with_defaults() and
\* goes on with it
CallWithDefaults ==
    /\ call = NoCall
    /\ factors' = WithDefaults
    /\ call' = [op |-> "with_defaults"]
    /\ result' = NoResult
    /\ UNCHANGED <<panel, tie, frame>>

\* What the calls of a session on one registry have done so far, kept with
\* the last call: whether a read or a computation has returned (read), the
\* factor registered last (registered), and whether a read had returned
\* before that registration (afterRead).
Session(c) ==
    IF "session" \in DOMAIN c THEN c.session
    ELSE [read |-> FALSE, registered |-> NoFactor, afterRead |-> FALSE]

\* a registration that a registry already read refuses
RegisterWithConfigSealed(kind, config) ==
    /\ ~Session(call).read
    /\ factors' = Insert(factors, WithConfig(kind, config))
    /\ call' = [op |-> "register", factor |-> WithConfig(kind, config),
                displaced |-> Get(factors, Name(WithConfig(kind, config))),
                kind |-> kind, config |-> config,
                session |-> [read |-> Session(call).read,
                             registered |-> WithConfig(kind, config),
                             afterRead |-> Session(call).read]]
    /\ result' = NoResult
    /\ UNCHANGED <<panel, tie, frame>>

\* register(Arc::new(T::with_config(config))) for the type T named kind,
\* at any point of the session
RegisterWithConfig(kind, config) ==
    /\ factors' = Insert(factors, WithConfig(kind, config))
    /\ call' = [op |-> "register", factor |-> WithConfig(kind, config),
                displaced |-> Get(factors, Name(WithConfig(kind, config))),
                kind |-> kind, config |-> config,
                session |-> [read |-> Session(call).read,
                             registered |-> WithConfig(kind, config),
                             afterRead |-> Session(call).read]]
    /\ result' = NoResult
    /\ UNCHANGED <<panel, tie, frame>>

\* the session after a read
Read(c) == [Session(c) EXCEPT !.read = TRUE]

\* the value a read returns
Value(v) == [value |-> v]

\* the reads of the registry, at any point of the session
CallGet(name) ==
    /\ call' = [op |-> "get", name |-> name, session |-> Read(call)]
    /\ result' = Value(Get(factors, name))
    /\ UNCHANGED <<panel, tie, factors, frame>>

CallByCategory(category, order) ==
    /\ call' = [op |-> "by_category", category |-> category, order |-> order, session |-> Read(call)]
    /\ result' = Value(ByCategory(factors, order, category))
    /\ UNCHANGED <<panel, tie, factors, frame>>

CallAllInfo(order) ==
    /\ call' = [op |-> "all_info", order |-> order, session |-> Read(call)]
    /\ result' = Value(AllInfo(factors, order))
    /\ UNCHANGED <<panel, tie, factors, frame>>

CallNames(order) ==
    /\ call' = [op |-> "names", order |-> order, session |-> Read(call)]
    /\ result' = Value(Names(factors, order))
    /\ UNCHANGED <<panel, tie, factors, frame>>

CallLen ==
    /\ call' = [op |-> "len", session |-> Read(call)]
    /\ result' = Value(RegistryLen(factors))
    /\ UNCHANGED <<panel, tie, factors, frame>>

CallIsEmpty ==
    /\ call' = [op |-> "is_empty", session |-> Read(call)]
    /\ result' = Value(IsEmpty(factors))
    /\ UNCHANGED <<panel, tie, factors, frame>>

NextIntrospect ==
    \/ CallWithDefaults
    \/ \E kind \in IntrospectKinds \cap ConfigurableKinds :
          \E config \in ConfigValues(kind) : RegisterWithConfig(kind, config)
    \/ \E kind \in IntrospectKinds \ ConfigurableKinds : Register(Default(kind))
    \/ \E name \in GetNames : CallGet(name)
    \/ \E category \in Categories, order \in IterationOrders(DOMAIN factors) :
          CallByCategory(category, order)
    \/ \E order \in IterationOrders(DOMAIN factors) : CallAllInfo(order)
    \/ \E order \in IterationOrders(DOMAIN factors) : CallNames(order)
    \/ CallLen
    \/ CallIsEmpty
    \/ Return

SpecIntrospect == InitIntrospect /\ [][NextIntrospect]_vars

(***************************************************************************)
(* The life of one registry: registrations, reads and computations follow  *)
(* one another in any order on a panel the caller holds.                   *)
(***************************************************************************)
\* the configurations registered: the default one and the shortest one
LifecycleConfigs(kind) ==
    {DefaultConfig(kind), [c \in DOMAIN DefaultConfig(kind) |-> 1]}

\* FactorRegistry::new() and a panel of every symbol on every day, under
\* the complete schema or the schema lacking a column
InitLifecycle ==
    /\ panel \in {CoveragePanel(cs, [s \in Symbols |-> Dates]) : cs \in Schemas}
    /\ tie = "keep"
    /\ factors = NoFactors
    /\ call = NoCall
    /\ result = NoResult
    /\ frame = EmptyFrame

\* a compute_all that drops the factors it has computed from the map
ComputeAllDraining(d, order) ==
    /\ call' = [op |-> "compute_all", date |-> d, order |-> order, session |-> Read(call)]
    /\ result' = ComputeAll(factors, order, panel, d, tie)
    /\ factors' = NoFactors
    /\ UNCHANGED <<panel, tie, frame>>

\* FactorRegistry::compute_all at any point of the session, the map
\* iterated in the order `order`
ComputeAllInSession(d, order) ==
    /\ call' = [op |-> "compute_all", date |-> d, order |-> order, session |-> Read(call)]
    /\ result' = ComputeAll(factors, order, panel, d, tie)
    /\ UNCHANGED <<panel, tie, factors, frame>>

NextLifecycle ==
    \/ \E kind \in {"AssetGrowth", "ShortTermMomentum"} :
          \E config \in LifecycleConfigs(kind) : RegisterWithConfig(kind, config)
    \/ \E name \in GetNames : CallGet(name)
    \/ \E category \in {"Growth", "Momentum", "Value"},
           order \in IterationOrders(DOMAIN factors) : CallByCategory(category, order)
    \/ \E order \in IterationOrders(DOMAIN factors) : CallAllInfo(order)
    \/ \E order \in IterationOrders(DOMAIN factors) : CallNames(order)
    \/ CallLen
    \/ CallIsEmpty
    \/ \E d \in Dates, order \in IterationOrders(DOMAIN factors) : ComputeAllInSession(d, order)
    \/ \E n \in DOMAIN factors, d \in Dates : CallCompute(factors[n], d)
    \/ \E n \in DOMAIN factors, d \in Dates : CallComputeRaw(factors[n], d)
    \/ Return

SpecLifecycle == InitLifecycle /\ [][NextLifecycle]_vars

(***************************************************************************)
(* Evaluation of single factors on panels with a longer history: each      *)
(* symbol is observed at most once a day, on a set of days.                *)
(***************************************************************************)
HistoryDates == 1..MaxHistory

HistoryNumericColumns ==
    NumericColumns \cup {"book_equity", "market_cap", "net_income", "shareholders_equity",
                         "eps_estimate", "institutional_ownership"}
HistoryColumns == {"symbol", "date"} \cup HistoryNumericColumns

\* the measurements of symbol s on day d
HistoryObservation(s, d) ==
    [c \in HistoryNumericColumns |->
        CASE c = "total_assets" -> Num(SymRank(s) * (95 + 5 * d) * SCALE)
          [] c = "close" -> IF s = "AAPL" THEN Num((101 - d) * SCALE) ELSE Num((200 + 2 * d) * SCALE)
          [] c = "eps_estimate" -> Num(((50 + d) * SCALE) \div 10)
          [] c = "institutional_ownership" -> Num((55 + 5 * d) * SCALE)
          [] c = "book_equity" -> Num(5 * SymRank(s) * SCALE)
          [] c = "market_cap" -> Num(250 * SCALE)
          [] c = "net_income" -> Num(d * SCALE)
          [] c = "shareholders_equity" -> Num(10 * SCALE)
          [] OTHER -> ObservationAt(s, d)[c]]

HistoryRow(s, d) == ("symbol" :> s) @@ ("date" :> DateString(d)) @@ HistoryObservation(s, d)

\* the panel whose symbols are observed on the days cover[s], its rows in
\* ascending or descending date order
HistoryPanel(cols, cover, order) ==
    LET n == 2 * MaxHistory
        ascending == [k \in 1..n |->
                        [s |-> IF k % 2 = 1 THEN "AAPL" ELSE "MSFT", d |-> (k + 1) \div 2]]
        cells == IF order = "ascending" THEN ascending
                 ELSE [k \in 1..n |-> ascending[n + 1 - k]]
        present == SelectSeq(cells, LAMBDA c : c.d \in cover[c.s])
    IN [cols |-> cols,
        rows |-> [i \in DOMAIN present |->
                    Project(HistoryRow(present[i].s, present[i].d), cols)]]

\* the panels of the caller: every history of AAPL beside no, a one-day or a
\* full history of MSFT, under the complete schema; the empty and the full
\* panel under every schema that lacks one column
HistoryPanels ==
    {HistoryPanel(HistoryColumns, [s \in Symbols |-> IF s = "AAPL" THEN a ELSE m], o) :
        a \in SUBSET HistoryDates,
        m \in {{}, {MaxHistory}, HistoryDates},
        o \in {"ascending", "descending"}}
    \cup {HistoryPanel(HistoryColumns \ {c}, [s \in Symbols |-> days], "ascending") :
            c \in HistoryColumns, days \in {{}, HistoryDates}}

\* the factor instances evaluated on the histories
HistoryInstances ==
    {AssetGrowth(4), ShortTermMomentum(1, 0), InsiderTrading(2), HistoricalVolatility(2, 2),
     EarningsSurprise, BookToPrice, Roe, AnalystRevisions(1), AnalystRevisions(3),
     ShortTermReversal, InstitutionalOwnership}

InitHistory ==
    /\ panel \in HistoryPanels
    /\ tie = "keep"
    /\ factors = NoFactors
    /\ call = NoCall
    /\ result = NoResult
    /\ frame = EmptyFrame

NextHistory ==
    \/ \E f \in HistoryInstances, d \in HistoryDates : CallComputeRaw(f, d)
    \/ \E f \in HistoryInstances, d \in HistoryDates : CallCompute(f, d)
    \/ Return

SpecHistory == InitHistory /\ [][NextHistory]_vars

(***************************************************************************)
(* Properties of compute_raw and compute.                                  *)
(***************************************************************************)
RECURSIVE CountOf(_, _)
CountOf(rows, r) ==
    IF rows = <<>> THEN 0
    ELSE (IF Head(rows) = r THEN 1 ELSE 0) + CountOf(Tail(rows), r)

\* the same rows, whatever their order
SameRows(a, b) ==
    /\ Len(a) = Len(b)
    /\ \A r \in Range(a) \cup Range(b) : CountOf(a, r) = CountOf(b, r)

\* two results that are the same failure or frames of the same rows
SameOutcome(x, y) ==
    /\ x.ok = y.ok
    /\ x.err = y.err
    /\ x.df.cols = y.df.cols
    /\ SameRows(x.df.rows, y.df.rows)

PanelWith(rows) == [panel EXCEPT !.rows = rows]

FutureRows(date) ==
    {Project(PanelRow(s, d, obs), panel.cols) :
        s \in Symbols, d \in {x \in Dates : x > date}, obs \in Observations}

\* C1: no look-ahead.  The result of compute_raw(panel, D) is the result on
\* the panel cut down to its rows dated on or before D, and is the result on
\* the panel with any further row dated after D put in front or behind.
C1_NoLookAhead ==
    call.op = "compute_raw" =>
        LET f == call.factor
            D == call.date
            past == SelectSeq(panel.rows, LAMBDA r : StrLe(r["date"], DateString(D)))
        IN /\ SameOutcome(result, ComputeRaw(f, PanelWith(past), D, tie))
           /\ \A r \in FutureRows(D) :
                /\ SameOutcome(result, ComputeRaw(f, PanelWith(Append(panel.rows, r)), D, tie))
                /\ SameOutcome(result, ComputeRaw(f, PanelWith(<<r>> \o panel.rows), D, tie))

\* a compute_raw that returned rows from a panel holding rows dated after D
C1_Witness ==
    /\ call.op = "compute_raw"
    /\ call.factor.kind \in {"ShortTermMomentum", "InsiderTrading", "AssetGrowth"}
    /\ result.ok
    /\ result.df.rows # <<>>
    /\ \E i \in DOMAIN panel.rows : StrLt(DateString(call.date), panel.rows[i]["date"])
    /\ \E i \in DOMAIN result.df.rows : IsNum(result.df.rows[i][Name(call.factor)])

\* observations of symbol s dated strictly before D
ObservedBefore(s, D) ==
    Len(SelectSeq(panel.rows, LAMBDA r : r["symbol"] = s /\ StrLt(r["date"], DateString(D))))

\* C2: lookback gating.  A symbol with fewer than lookback() observations
\* before D has no row in compute_raw(panel, D) (AssetGrowth,
\* HistoricalVolatility).
C2_LookbackGating ==
    (/\ call.op = "compute_raw"
     /\ call.factor.kind \in {"AssetGrowth", "HistoricalVolatility"}
     /\ result.ok) =>
        \A s \in Symbols :
            ObservedBefore(s, call.date) < Lookback(call.factor) =>
                \A i \in DOMAIN result.df.rows : result.df.rows[i]["symbol"] # s

\* C18: output uniqueness.  Whatever the input panel, repeated (symbol, date)
\* pairs included, the frame compute_raw returns has at most one row per
\* (symbol, date).
C18_OutputUnique ==
    (call.op = "compute_raw" /\ result.ok) =>
        \A i, j \in DOMAIN result.df.rows :
            (/\ result.df.rows[i]["symbol"] = result.df.rows[j]["symbol"]
             /\ result.df.rows[i]["date"] = result.df.rows[j]["date"]) => i = j

\* C3: every row of compute_raw(panel, D) is dated D.
C3_RowsDatedAsOf ==
    (call.op = "compute_raw" /\ result.ok) =>
        \A i \in DOMAIN result.df.rows : result.df.rows[i]["date"] = DateString(call.date)

\* C4: compute is compute_raw followed by the z-score of the factor's own
\* column: it fails as compute_raw fails, and otherwise returns the rows of
\* the raw result, the column named after the factor replaced by
\* (x - mean over the date) / sample std over the date, nothing else changed.
C4_ComputeIsStandardizedRaw ==
    call.op = "compute" =>
        LET f == call.factor
            raw == ComputeRaw(f, panel, call.date, tie)
            x(i) == raw.df.rows[i][Name(f)]
            group(i) ==
                Column(SelectSeq(raw.df.rows, LAMBDA r : r["date"] = raw.df.rows[i]["date"]),
                       Name(f))
        IN /\ result.ok = raw.ok
           /\ result.err = raw.err
           /\ raw.ok =>
                /\ result.df.cols = {"symbol", "date", Name(f)}
                /\ Len(result.df.rows) = Len(raw.df.rows)
                /\ \A i \in DOMAIN raw.df.rows :
                     /\ result.df.rows[i]["symbol"] = raw.df.rows[i]["symbol"]
                     /\ result.df.rows[i]["date"] = raw.df.rows[i]["date"]
                     /\ result.df.rows[i][Name(f)] =
                            FDiv(FSub(x(i), AggMean(group(i))), AggStd(group(i), 1))

\* a compute that returned a z-score different from the raw value
C4_Witness ==
    /\ call.op = "compute"
    /\ result.ok
    /\ \E i \in DOMAIN result.df.rows :
         /\ IsNum(result.df.rows[i][Name(call.factor)])
         /\ result.df.rows[i][Name(call.factor)] #
                ComputeRaw(call.factor, panel, call.date, tie).df.rows[i][Name(call.factor)]

\* C11: missing required column.  When the panel lacks a column of
\* required_columns(), compute_raw and compute fail: no frame is returned,
\* whatever rows the panel holds.
C11_MissingColumnFails ==
    (/\ call.op \in {"compute_raw", "compute"}
     /\ \E c \in Range(RequiredColumns(call.factor)) : c \notin panel.cols) =>
        /\ ~result.ok
        /\ result.err = "Polars"
        /\ result.df = EmptyFrame

\* a book-to-price asked of a panel that holds rows and lacks market_cap
C11_Witness ==
    /\ call.op = "compute_raw"
    /\ call.factor = BookToPrice
    /\ "market_cap" \notin panel.cols
    /\ "book_equity" \in panel.cols
    /\ panel.rows # <<>>
    /\ ~result.ok

\* the rows of symbol s in the panel dated before day d / on day d
PanelRowsBefore(s, d) ==
    {i \in DOMAIN panel.rows : /\ panel.rows[i]["symbol"] = s
                               /\ StrLt(panel.rows[i]["date"], DateString(d))}
PanelRowsOn(s, d) ==
    {i \in DOMAIN panel.rows : /\ panel.rows[i]["symbol"] = s
                               /\ panel.rows[i]["date"] = DateString(d)}

\* the row of symbol s that lies n rows before day d in date order
RowBack(s, d, n) ==
    CHOOSE i \in PanelRowsBefore(s, d) :
        Cardinality({j \in PanelRowsBefore(s, d) :
                       StrLt(panel.rows[i]["date"], panel.rows[j]["date"])}) = n - 1

\* C19: AssetGrowth value.  For a symbol with a row dated D and at least
\* growth_periods = 4 earlier rows, compute_raw(panel, D) returns one row
\* for the symbol, dated D, whose value is total_assets at D divided by
\* total_assets growth_periods rows earlier in date order, minus 1 (to the
\* last digit kept).
C19_AssetGrowthValue ==
    (/\ call.op = "compute_raw"
     /\ call.factor = AssetGrowth(4)
     /\ \A c \in Range(RequiredColumns(call.factor)) : c \in panel.cols) =>
        /\ result.ok
        /\ \A s \in Symbols :
             (PanelRowsOn(s, call.date) # {} /\ Cardinality(PanelRowsBefore(s, call.date)) >= 4) =>
                LET cur == panel.rows[CHOOSE i \in PanelRowsOn(s, call.date) : TRUE]["total_assets"]
                    lag == panel.rows[RowBack(s, call.date, 4)]["total_assets"]
                    out == SelectSeq(result.df.rows, LAMBDA r : r["symbol"] = s)
                IN /\ Len(out) = 1
                   /\ out[1]["date"] = DateString(call.date)
                   /\ IsNum(out[1]["asset_growth"])
                   /\ Abs((out[1]["asset_growth"].v + SCALE) * lag.v - cur.v * SCALE) <= lag.v

\* total assets 100, 105, 110, 115, 120 on days 1..5, asked as of day 5:
\* the row (AAPL, day 5, 0.2)
C19_Witness ==
    /\ call.op = "compute_raw"
    /\ call.factor = AssetGrowth(4)
    /\ call.date = 5
    /\ result.ok
    /\ \A d \in 1..5 : \E i \in PanelRowsOn("AAPL", d) :
          panel.rows[i]["total_assets"] = Num((95 + 5 * d) * SCALE)
    /\ \E i \in DOMAIN result.df.rows :
          /\ result.df.rows[i]["symbol"] = "AAPL"
          /\ result.df.rows[i]["date"] = DateString(5)
          /\ IsNum(result.df.rows[i]["asset_growth"])
          /\ Abs(result.df.rows[i]["asset_growth"].v - SCALE \div 5) <= 1

\* the number of observations of symbol s dated on or before day d
ObservedUpTo(s, d) == Cardinality(PanelRowsBefore(s, d) \cup PanelRowsOn(s, d))

\* C20: insufficient history is omission.  For AnalystRevisions,
\* ShortTermReversal and InstitutionalOwnership, compute_raw on a panel
\* that has the required columns succeeds; a symbol with fewer than
\* lookback + 1 observations dated on or before D has no row in the result,
\* and a symbol with lookback + 1 or more has one.
C20_InsufficientHistoryOmitted ==
    (/\ call.op = "compute_raw"
     /\ call.factor.kind \in {"AnalystRevisions", "ShortTermReversal", "InstitutionalOwnership"}
     /\ \A c \in Range(RequiredColumns(call.factor)) : c \in panel.cols) =>
        /\ result.ok
        /\ \A s \in Symbols :
             LET out == SelectSeq(result.df.rows, LAMBDA r : r["symbol"] = s)
             IN IF ObservedUpTo(s, call.date) < Lookback(call.factor) + 1
                THEN out = <<>>
                ELSE Len(out) = 1 /\ IsNum(out[1][Name(call.factor)])

\* a five-day reversal where AAPL is observed on fewer than six days and MSFT
\* on six: the result is the row of MSFT alone
C20_Witness ==
    /\ call.op = "compute_raw"
    /\ call.factor = ShortTermReversal
    /\ result.ok
    /\ ObservedUpTo("AAPL", call.date) \in 1..5
    /\ ObservedUpTo("MSFT", call.date) >= 6
    /\ Len(result.df.rows) = 1
    /\ result.df.rows[1]["symbol"] = "MSFT"

(***************************************************************************)
(* The standardization engine on the frames a caller hands to it.          *)
(***************************************************************************)
FrameSymbols == <<"AAPL", "MSFT", "GOOGL", "AMZN", "META">>
FrameDates == {1, 2}
FrameValues == {Null, Num(SCALE), Num(2 * SCALE), Num(3 * SCALE)}

FrameRow(i, d, x) == ("symbol" :> FrameSymbols[i]) @@ ("date" :> DateString(d)) @@ ("value" :> x)

\* the frames of up to MaxFrameRows rows, one row per symbol
Frames ==
    {[cols |-> {"symbol", "date", "value"},
      rows |-> [i \in DOMAIN dv |-> FrameRow(i, dv[i][1], dv[i][2])]] :
        dv \in UNION {[1..n -> FrameDates \X FrameValues] : n \in 0..MaxFrameRows}}

InitStd ==
    /\ frame \in Frames
    /\ panel = EmptyFrame
    /\ tie = "keep"
    /\ factors = NoFactors
    /\ call = NoCall
    /\ result = NoResult

CallStandardize ==
    /\ call = NoCall
    /\ call' = [op |-> "cross_sectional_standardize", value_column |-> "value"]
    /\ result' = CrossSectionalStandardize(frame, "value")
    /\ UNCHANGED <<panel, tie, factors, frame>>

\* the percentiles a caller passes, as fractions
Percentiles == {<<0, 1>>, <<1, 100>>, <<1, 4>>, <<1, 2>>, <<3, 4>>, <<99, 100>>, <<1, 1>>}

\* the fraction p is no more than the fraction q
FracLe(p, q) == p[1] * q[2] <= q[1] * p[2]

CallWinsorize(lower_pct, upper_pct) ==
    /\ call = NoCall
    /\ FracLe(lower_pct, upper_pct)
    /\ call' = [op |-> "winsorize", value_column |-> "value",
                lower_pct |-> lower_pct, upper_pct |-> upper_pct]
    /\ result' = Winsorize(frame, "value", lower_pct, upper_pct)
    /\ UNCHANGED <<panel, tie, factors, frame>>

CallRobustStandardize ==
    /\ call = NoCall
    /\ call' = [op |-> "robust_standardize", value_column |-> "value"]
    /\ result' = RobustStandardize(frame, "value")
    /\ UNCHANGED <<panel, tie, factors, frame>>

NextStd ==
    \/ CallStandardize
    \/ \E lower_pct \in Percentiles, upper_pct \in Percentiles :
          CallWinsorize(lower_pct, upper_pct)
    \/ CallRobustStandardize
    \/ Return

SpecStd == InitStd /\ [][NextStd]_vars

(***************************************************************************)
(* Properties of cross_sectional_standardize.                              *)
(***************************************************************************)
\* the floating-point tolerance of the checks: 0.01
Tolerance == SCALE \div 100

\* the indices of the rows of the frame dated d
RowsOn(df, d) == {i \in DOMAIN df.rows : df.rows[i]["date"] = d}

\* the values of column c of the rows dated d, in frame order
ValuesOn(df, c, d) == Column(SelectSeq(df.rows, LAMBDA r : r["date"] = d), c)

DatesOf(df) == {df.rows[i]["date"] : i \in DOMAIN df.rows}

\* the cross-section of date d has at least 2 values and they differ
HasVariance(df, c, d) ==
    LET nn == NonNull(ValuesOn(df, c, d))
    IN /\ Len(nn) >= 2
       /\ \E i, j \in DOMAIN nn : nn[i] # nn[j]

\* C5: z-score correctness.  On every date whose cross-section has at least
\* 2 values and non-zero variance, the standardized values have mean 0 and
\* sample standard deviation 1 within the tolerance, and 1.0, 2.0, 3.0 give
\* -1.0, 0.0, 1.0.
C5_ZScoreCorrect ==
    (call.op = "cross_sectional_standardize" /\ result.ok) =>
        \A d \in DatesOf(frame) :
            HasVariance(frame, "value", d) =>
                LET z == ValuesOn(result.df, "value", d)
                    x == ValuesOn(frame, "value", d)
                IN /\ Len(z) = Len(x)
                   /\ \A i \in DOMAIN z : IsNull(z[i]) = IsNull(x[i])
                   /\ \A i \in DOMAIN z : ~IsNull(z[i]) => IsNum(z[i])
                   /\ \A i, j \in DOMAIN z :
                        (IsNum(x[i]) /\ IsNum(x[j]) /\ x[i].v < x[j].v) => z[i].v < z[j].v
                   /\ IsNum(AggMean(z)) /\ Abs(AggMean(z).v) <= Tolerance
                   /\ IsNum(AggStd(z, 1)) /\ Abs(AggStd(z, 1).v - SCALE) <= Tolerance
                   /\ x = <<Num(SCALE), Num(2 * SCALE), Num(3 * SCALE)>>
                        => z = <<Num(0 - SCALE), Num(0), Num(SCALE)>>

\* the standardization of 1.0, 2.0, 3.0 on one date
C5_Witness ==
    /\ call.op = "cross_sectional_standardize"
    /\ result.ok
    /\ \E d \in DatesOf(frame) :
         /\ ValuesOn(frame, "value", d) = <<Num(SCALE), Num(2 * SCALE), Num(3 * SCALE)>>
         /\ ValuesOn(result.df, "value", d) = <<Num(0 - SCALE), Num(0), Num(SCALE)>>

\* C6: degenerate cross-sections.  When the group of a date has fewer than
\* 2 values or zero variance, the standardization fails or the rows of the
\* date come out null.
C6_DegenerateIsMissing ==
    call.op = "cross_sectional_standardize" =>
        \/ ~result.ok
        \/ \A d \in DatesOf(frame) :
             ~HasVariance(frame, "value", d) =>
                 \A i \in RowsOn(result.df, d) : IsNull(result.df.rows[i]["value"])

(***************************************************************************)
(* Properties of winsorize and robust_standardize.                         *)
(***************************************************************************)
\* x <= y on values that are not null
FLe(x, y) == ~FGt(x, y)

\* the bounds of the winsorize call on the cross-section of date d of df
LowerBound(df, d) == Quantile(ValuesOn(df, "value", d), call.lower_pct)
UpperBound(df, d) == Quantile(ValuesOn(df, "value", d), call.upper_pct)

WinsorizedTwice == Winsorize(result.df, "value", call.lower_pct, call.upper_pct)

\* the rows of df dated d, in frame order
RowsDated(df, d) == SelectSeq(df.rows, LAMBDA r : r["date"] = d)

\* the position (n - 1) * q of the quantile q in the cross-section of date
\* d is a whole number: the quantile is one of the values
WholePosition(df, d, q) ==
    LET n == Len(NonNull(ValuesOn(df, "value", d)))
    IN n > 0 /\ ((n - 1) * q[1]) % q[2] = 0

KthSmallest(ints, k) ==
    CHOOSE v \in Range(ints) :
        /\ Cardinality({j \in DOMAIN ints : ints[j] < v}) <= k
        /\ k < Cardinality({j \in DOMAIN ints : ints[j] <= v})

\* twice the median of a non-empty sequence of integers: the sum of its
\* two middle values (the middle value twice when the length is odd)
TwiceMedian(ints) ==
    KthSmallest(ints, (Len(ints) - 1) \div 2) + KthSmallest(ints, Len(ints) \div 2)

Recall(df) ==
    CASE call.op = "cross_sectional_standardize" -> CrossSectionalStandardize(df, "value")
      [] call.op = "winsorize" -> Winsorize(df, "value", call.lower_pct, call.upper_pct)
      [] call.op = "robust_standardize" -> RobustStandardize(df, "value")

\* the frame with the rows of the dates other than d left out
OnlyDate(df, d) == [df EXCEPT !.rows = RowsDated(df, d)]

\* the frame with the value x in every row of a date other than d
OthersSetTo(df, d, x) ==
    [df EXCEPT !.rows = [i \in DOMAIN df.rows |->
                           IF df.rows[i]["date"] = d THEN df.rows[i]
                           ELSE [df.rows[i] EXCEPT !["value"] = x]]]

\* the dates of the frames
FrameDateStrings == {DateString(d) : d \in FrameDates}

\* C17: per-date isolation.  For cross_sectional_standardize, winsorize and
\* robust_standardize the rows returned for date D are those returned when
\* the rows of every other date are removed, when their values are changed,
\* and when a row of another date is added in front or behind.
C17_PerDateIsolation ==
    (call.op \in {"cross_sectional_standardize", "winsorize", "robust_standardize"}
     /\ result.ok) =>
        \A d \in DatesOf(frame) :
            /\ RowsDated(Recall(OnlyDate(frame, d)).df, d) = RowsDated(result.df, d)
            /\ \A x \in FrameValues :
                 RowsDated(Recall(OthersSetTo(frame, d, x)).df, d) = RowsDated(result.df, d)
            /\ \A e \in FrameDateStrings \ {d} : \A x \in FrameValues :
                 LET r == ("symbol" :> "NVDA") @@ ("date" :> e) @@ ("value" :> x)
                 IN /\ RowsDated(Recall([frame EXCEPT !.rows = Append(@, r)]).df, d)
                        = RowsDated(result.df, d)
                    /\ RowsDated(Recall([frame EXCEPT !.rows = <<r>> \o @]).df, d)
                        = RowsDated(result.df, d)

\* a call on a frame of two dates that changed the values of one of them
C17_Witness ==
    /\ call.op \in {"winsorize", "robust_standardize"}
    /\ result.ok
    /\ \E d, e \in DatesOf(frame) :
         /\ d # e
         /\ HasVariance(frame, "value", d)
         /\ NonNull(ValuesOn(frame, "value", e)) # <<>>
         /\ RowsDated(result.df, d) # RowsDated(frame, d)
         /\ \A i \in DOMAIN result.df.rows : ~IsNull(result.df.rows[i]["value"])

(***************************************************************************)
(* Properties of the registry.                                             *)
(***************************************************************************)
\* the names a caller asks the registry for: the registered ones and one
\* that is never registered
NamesAsked == {Name(f) : f \in RegistryInstances} \cup {"book_to_price"}

\* C12: last write wins.  The new registry answers none for every name;
\* a register of f makes get(name of f) answer f, leaves the answer for
\* every other name as it was, and adds one to len() when the name is new
\* and nothing when it replaces an entry; no other step changes the
\* registry.  Hence get(n) is the factor registered last under n, or none.
C12_LastWriteWins ==
    /\ \A n \in NamesAsked : Get(factors, n) = NoFactor
    /\ RegistryLen(factors) = 0
    /\ [][IF call'.op = "register" /\ call = NoCall
          THEN LET f == call'.factor
               IN /\ Get(factors', Name(f)) = f
                  /\ \A m \in NamesAsked \ {Name(f)} : Get(factors', m) = Get(factors, m)
                  /\ RegistryLen(factors') =
                        RegistryLen(factors) + (IF Get(factors, Name(f)) = NoFactor THEN 1 ELSE 0)
          ELSE factors' = factors]_vars

\* a register that replaced another factor of the same name
C12_Witness ==
    /\ call.op = "register"
    /\ call.displaced # NoFactor
    /\ call.displaced # call.factor
    /\ Get(factors, Name(call.factor)) = call.factor
    /\ RegistryLen(factors) >= 2

(***************************************************************************)
(* Properties of the reads of the registry.                                *)
(***************************************************************************)
\* C21: by_category(c) returns the registered factors of category c, each
\* once: every element is the factor the registry holds under its name and
\* has category c, no name occurs twice, and every registered factor of
\* category c is an element.
C21_ByCategoryExact ==
    call.op = "by_category" =>
        LET fs == result.value
        IN /\ \A i \in DOMAIN fs : /\ Category(fs[i]) = call.category
                                    /\ Get(factors, Name(fs[i])) = fs[i]
           /\ \A i, j \in DOMAIN fs : Name(fs[i]) = Name(fs[j]) => i = j
           /\ \A n \in DOMAIN factors :
                 Category(factors[n]) = call.category => \E i \in DOMAIN fs : fs[i] = factors[n]

\* the momentum factors of a default registry whose short-term momentum
\* was replaced by one of another configuration
C21_Witness ==
    /\ call.op = "by_category"
    /\ call.category = "Momentum"
    /\ RegistryLen(factors) >= 27
    /\ factors["short_term_momentum"] # Default("ShortTermMomentum")
    /\ Len(result.value) = 3
    /\ \E i \in DOMAIN result.value : result.value[i] = factors["short_term_momentum"]

\* C22: metadata consistency.  all_info() has len() entries, one per
\* registered factor, each with the factor's name, description, category,
\* required_columns, lookback and frequency; no name or description is
\* empty and every required_columns holds symbol and date.
C22_AllInfoConsistent ==
    call.op = "all_info" =>
        LET infos == result.value
        IN /\ Len(infos) = RegistryLen(factors)
           /\ \A n \in DOMAIN factors :
                 LET f == factors[n]
                     mine == {i \in DOMAIN infos : infos[i].name = Name(f)}
                 IN /\ Cardinality(mine) = 1
                    /\ \A i \in mine :
                         /\ infos[i].description = Description(f)
                         /\ infos[i].category = Category(f)
                         /\ infos[i].required_columns = RequiredColumns(f)
                         /\ infos[i].lookback = Lookback(f)
                         /\ infos[i].frequency = Frequency(f)
           /\ \A i \in DOMAIN infos :
                 /\ infos[i].name # ""
                 /\ infos[i].description # ""
                 /\ {"symbol", "date"} \subseteq Range(infos[i].required_columns)
                 /\ infos[i].lookback >= 0

\* the metadata of a default registry to which an asset growth was added
C22_Witness ==
    /\ call.op = "all_info"
    /\ Len(result.value) = 28
    /\ \E i \in DOMAIN result.value : /\ result.value[i].name = "asset_growth"
                                       /\ result.value[i].lookback = 5
    /\ \E i \in DOMAIN result.value : /\ result.value[i].name = "kyle_lambda"
                                       /\ result.value[i].frequency = "Daily"

\* C23: the names of the default registry do not collide.  On the registry
\* with_defaults returns, len() is 27, is_empty() is false, and get answers
\* each of the 27 default factors under its own name.
C23_DefaultNamesDistinct ==
    factors = WithDefaults =>
        /\ \A i, j \in DOMAIN DefaultFactors :
              Name(DefaultFactors[i]) = Name(DefaultFactors[j]) => i = j
        /\ call.op = "with_defaults" => RegistryLen(factors) = 27
        /\ call.op = "len" => result.value = 27
        /\ call.op = "is_empty" => result.value = FALSE
        /\ call.op = "get" =>
              \A i \in DOMAIN DefaultFactors :
                  call.name = Name(DefaultFactors[i]) => result.value = DefaultFactors[i]

\* the last factor with_defaults registers, got from the default registry
C23_Witness ==
    /\ factors = WithDefaults
    /\ call.op = "get"
    /\ call.name = "analyst_revisions"
    /\ result.value = WithConfig("AnalystRevisions", [lookback_days |-> 63])

\* C24: configuration changes parameters only.  The factor with_config
\* builds has the name and the category of the default factor of its type,
\* for every configurable type and configuration; registered, it lies
\* under the key of the default factor and displaces only a factor of its
\* type.
C24_ConfigKeepsIdentity ==
    /\ \A kind \in ConfigurableKinds : \A config \in ConfigValues(kind) :
          /\ Name(WithConfig(kind, config)) = Name(Default(kind))
          /\ Category(WithConfig(kind, config)) = Category(Default(kind))
    /\ (call.op = "register" /\ "kind" \in DOMAIN call) =>
          /\ Name(call.factor) = Name(Default(call.kind))
          /\ Category(call.factor) = Category(Default(call.kind))
          /\ Get(factors, Name(Default(call.kind))) = call.factor
          /\ call.displaced # NoFactor => call.displaced.kind = call.kind

\* a short-term momentum of another configuration registered over the
\* default one
C24_Witness ==
    /\ call.op = "register"
    /\ "kind" \in DOMAIN call
    /\ call.kind = "ShortTermMomentum"
    /\ call.config = [lookback |-> 5, skip_days |-> 1]
    /\ call.displaced = Default("ShortTermMomentum")
    /\ factors["short_term_momentum"].lookback = 5

(***************************************************************************)
(* Properties of compute_all.                                              *)
(***************************************************************************)
\* the (symbol, date) keys of the rows of a frame
Keys(df) == {<<df.rows[i]["symbol"], df.rows[i]["date"]>> : i \in DOMAIN df.rows}

\* what the compute of the factor registered under n returns for the call
ComputeOf(n) == Compute(factors[n], panel, call.date, tie)

AllComputesSucceed == \A n \in DOMAIN factors : ComputeOf(n).ok

\* C7: inner-join semantics.  When every registered factor's compute
\* succeeds, the keys of the rows of compute_all are the keys that every
\* factor's compute output holds.
C7_KeysAreIntersection ==
    (call.op = "compute_all" /\ factors # NoFactors /\ AllComputesSucceed) =>
        /\ result.ok
        /\ \A k \in Symbols \X {DateString(d) : d \in 0..MaxDate} :
             k \in Keys(result.df) <=> \A n \in DOMAIN factors : k \in Keys(ComputeOf(n).df)

\* a combined result that holds a row and lacks a key one factor returned
C7_Witness ==
    /\ call.op = "compute_all"
    /\ Cardinality(DOMAIN factors) >= 2
    /\ result.ok
    /\ result.df.rows # <<>>
    /\ \E n \in DOMAIN factors : \E k \in Keys(ComputeOf(n).df) : k \notin Keys(result.df)

\* C8: join completeness.  Every row of a successful compute_all over N
\* factors has N value columns, one per registered name, none of them null.
C8_EveryValuePopulated ==
    (call.op = "compute_all" /\ result.ok) =>
        /\ result.df.cols = {"symbol", "date"} \cup DOMAIN factors
        /\ \A i \in DOMAIN result.df.rows :
             \A n \in DOMAIN factors : ~IsNull(result.df.rows[i][n])

\* C9: compute_all on an empty registry fails with the computation error
\* "No factors registered", for every panel and date.
C9_EmptyRegistryFails ==
    (call.op = "compute_all" /\ factors = NoFactors) =>
        /\ ~result.ok
        /\ result.err = "Computation: No factors registered"

\* a compute_all on the empty registry over a panel that holds rows
C9_Witness ==
    /\ call.op = "compute_all"
    /\ factors = NoFactors
    /\ panel.rows # <<>>
    /\ ~result.ok

\* C10: all or nothing.  If the compute of a registered factor fails,
\* compute_all returns that failure, in whatever order the map is iterated.
C10_AllOrNothing ==
    (call.op = "compute_all" /\ ~AllComputesSucceed) =>
        /\ ~result.ok
        /\ \E n \in DOMAIN factors : ~ComputeOf(n).ok /\ result.err = ComputeOf(n).err
        /\ result.df = EmptyFrame

\* a failure returned after the computes of other factors had succeeded
C10_Witness ==
    /\ call.op = "compute_all"
    /\ Len(call.order) >= 2
    /\ ComputeOf(call.order[1]).ok
    /\ ComputeOf(call.order[1]).df.rows # <<>>
    /\ ~ComputeOf(call.order[Len(call.order)]).ok
    /\ ~result.ok

\* C25: order independence of compute_all.  When every registered factor's
\* compute succeeds, the result of the call has the columns and the rows
\* (each with its value per factor column) that compute_all has under every
\* other iteration order of the map, and that the joins give when the
\* factor frames are combined pairwise in any grouping.
C25_OrderIndependent ==
    (call.op = "compute_all" /\ factors # NoFactors /\ AllComputesSucceed) =>
        /\ result.ok
        /\ \A o \in Orders(DOMAIN factors) :
              SameOutcome(result, ComputeAll(factors, o, panel, call.date, tie))
        /\ \A o \in Orders(DOMAIN factors) :
              Len(o) = 3 =>
                 SameRows(result.df.rows,
                          InnerJoin(ComputeOf(o[1]).df,
                                    InnerJoin(ComputeOf(o[2]).df, ComputeOf(o[3]).df)).rows)

\* three factors joined, the first of the order with a row the last lacks
C25_Witness ==
    /\ call.op = "compute_all"
    /\ Len(call.order) = 3
    /\ result.ok
    /\ result.df.rows # <<>>
    /\ Keys(ComputeOf(call.order[1]).df) # Keys(ComputeOf(call.order[3]).df)
    /\ Keys(ComputeOf(call.order[1]).df) # Keys(result.df)

\* C29: compute_all agrees with the standalone compute.  In every row of a
\* successful compute_all and for every registered factor, the value in
\* the factor's column is the value the factor's own compute returns for
\* the row's symbol and date on the same panel and date.
C29_AgreesWithCompute ==
    (call.op = "compute_all" /\ result.ok) =>
        \A i \in DOMAIN result.df.rows : \A n \in DOMAIN factors :
            LET r == result.df.rows[i]
                own == ComputeOf(n)
            IN /\ own.ok
               /\ n \in result.df.cols
               /\ \E k \in DOMAIN own.df.rows :
                     /\ KeyEq(own.df.rows[k], r)
                     /\ own.df.rows[k][n] = r[n]

\* a z-score taken over two symbols kept in a combined result of one row
C29_Witness ==
    /\ call.op = "compute_all"
    /\ result.ok
    /\ Len(result.df.rows) = 1
    /\ \E n \in DOMAIN factors :
          /\ Len(ComputeOf(n).df.rows) = 2
          /\ result.df.rows[1][n].t = "num"
          /\ result.df.rows[1][n].v # 0

\* the call without what the session remembers
Request(c) == [k \in DOMAIN c \ {"session"} |-> c[k]]

\* the reads and computations of the registry
ReadOps == {"get", "by_category", "all_info", "names", "len", "is_empty", "compute_all"}

\* what a read of the current registry shows of the factor f
Observes(f) ==
    /\ call.op = "get" /\ call.name = Name(f) => result.value = f
    /\ call.op = "by_category" /\ call.category = Category(f) =>
          \E i \in DOMAIN result.value : result.value[i] = f
    /\ call.op = "all_info" => \E i \in DOMAIN result.value : result.value[i] = FactorInfo(f)
    /\ call.op = "names" => \E i \in DOMAIN result.value : result.value[i] = Name(f)
    /\ call.op = "len" => result.value >= 1
    /\ call.op = "is_empty" => result.value = FALSE
    /\ call.op = "compute_all" /\ result.ok => Name(f) \in result.df.cols
    /\ call.op = "compute_all" /\ ~result.ok => \E n \in DOMAIN factors : ~ComputeOf(n).ok

\* C26: no frozen state.  In every state of a session, reads and compute_all
\* calls before it or not, each registration is possible; and every read
\* after a registration shows the factor registered last: get, by_category,
\* all_info and names return it, len and is_empty count it, and a
\* successful compute_all has its column.
C26_NoFrozenState ==
    /\ \A kind \in {"AssetGrowth", "ShortTermMomentum"} :
          \A config \in LifecycleConfigs(kind) : ENABLED RegisterWithConfig(kind, config)
    /\ call.op = "register" => Get(factors, Name(call.factor)) = call.factor
    /\ (call.op \in ReadOps /\ Session(call).registered # NoFactor) =>
          Observes(Session(call).registered)

\* a compute_all with the column of a factor that was registered after an
\* earlier read or compute_all of the registry had returned
C26_Witness ==
    /\ call.op = "compute_all"
    /\ result.ok
    /\ Session(call).afterRead
    /\ Session(call).registered # NoFactor
    /\ Name(Session(call).registered) \in result.df.cols
    /\ Cardinality(DOMAIN factors) = 2

\* C27: reads and computations are free of side effects.  No step but a
\* registration changes the registered factors (the set of names, and the
\* configuration and with it the metadata of each), no step changes the
\* panel, and a call that repeats the call before it returns what that
\* call returned.
C27_SideEffectFree ==
    [][/\ call'.op # "register" => factors' = factors
       /\ panel' = panel
       /\ (call'.op # "register" /\ Request(call') = Request(call)) => result' = result]_vars

\* a failed compute_all, made after an earlier read, that has left a
\* registry of two factors
C27_Witness ==
    /\ call.op = "compute_all"
    /\ ~result.ok
    /\ Session(call).read
    /\ Session(call).afterRead
    /\ Cardinality(DOMAIN factors) = 2
    /\ panel.rows # <<>>

\* the rows in each order
RowOrders(rows) == {[i \in DOMAIN rows |-> rows[o[i]]] : o \in Orders(DOMAIN rows)}

\* the panels that have the rows of symbol s that the panel has, and other
\* rows of the other symbols: none, the same with one changed in its date
\* and values, one more at any place, and the panel's rows in another
\* order (any order when no (symbol, date) of s is repeated, and otherwise
\* the orders that keep the rows of s in their order)
OtherSymbolVariants(s) ==
    LET rows == panel.rows
        own == GroupOf(rows, s)
        others == {PanelRow(t, d, obs) : t \in Symbols \ {s}, d \in Dates, obs \in Observations}
        repeated == \E i, j \in DOMAIN own : i # j /\ KeyEq(own[i], own[j])
    IN {own}
       \cup {[rows EXCEPT ![i] = Project(q, panel.cols)] :
                i \in {k \in DOMAIN rows : rows[k]["symbol"] # s}, q \in others}
       \cup {SubSeq(rows, 1, k) \o <<Project(q, panel.cols)>> \o SubSeq(rows, k + 1, Len(rows)) :
                k \in 0..Len(rows), q \in others}
       \cup {p \in RowOrders(rows) : ~repeated \/ GroupOf(p, s) = own}

\* C28: cross-symbol independence of the factors that lag or roll over
\* history.  The rows AssetGrowth and HistoricalVolatility return for a
\* symbol are the same when the rows of the other symbols are removed,
\* changed or added to, and in any row order of the panel.
C28_CrossSymbolIndependence ==
    (call.op = "compute_raw" /\ call.factor.kind \in {"AssetGrowth", "HistoricalVolatility"}) =>
        \A s \in Symbols : \A v \in OtherSymbolVariants(s) :
            LET alt == ComputeRaw(call.factor, PanelWith(v), call.date, tie)
            IN /\ alt.ok = result.ok
               /\ GroupOf(alt.df.rows, s) = GroupOf(result.df.rows, s)

\* a growth returned for a symbol whose rows have a row of another symbol
\* between them
C28_Witness ==
    /\ call.op = "compute_raw"
    /\ call.factor.kind = "AssetGrowth"
    /\ result.ok
    /\ Len(panel.rows) = 3
    /\ panel.rows[1]["symbol"] = panel.rows[3]["symbol"]
    /\ panel.rows[2]["symbol"] # panel.rows[1]["symbol"]
    /\ \E i \in DOMAIN result.df.rows :
          /\ result.df.rows[i]["symbol"] = panel.rows[1]["symbol"]
          /\ result.df.rows[i]["asset_growth"].t = "num"

\* C30: standardization changes only the value column.  Each of
\* cross_sectional_standardize, winsorize and robust_standardize, on a frame
\* without helper columns, leaves the frame of the caller as it was and
\* returns a frame of as many rows and of the same columns, each row with
\* the symbol and date (every column but value_column) of the input row
\* at its place.
C30_OnlyValueColumnChanges ==
    [][call'.op \in {"cross_sectional_standardize", "winsorize", "robust_standardize"} =>
          /\ frame' = frame
          /\ result'.ok
          /\ Len(result'.df.rows) = Len(frame.rows)
          /\ result'.df.cols = frame.cols
          /\ \A i \in DOMAIN frame.rows : \A c \in frame.cols \ {call'.value_column} :
                result'.df.rows[i][c] = frame.rows[i][c]]_vars

\* a robust standardization of three rows, one of them null, that has
\* changed a value
C30_Witness ==
    /\ call.op = "robust_standardize"
    /\ result.ok
    /\ Len(frame.rows) = 3
    /\ Len(result.df.rows) = 3
    /\ \E i \in DOMAIN frame.rows : frame.rows[i]["value"] = Null
    /\ \E i \in DOMAIN frame.rows :
          /\ result.df.rows[i]["value"] # frame.rows[i]["value"]
          /\ result.df.rows[i]["symbol"] = frame.rows[i]["symbol"]
          /\ result.df.rows[i]["date"] = frame.rows[i]["date"]

====
